---- MODULE Spec2Model ----
(***************************************************************************)
(* Model of codeguardian's confidence-gated rewrite engine                 *)
(* (src/src/fixer.ts, class AutoFixer) together with the unused-import     *)
(* resolver that feeds it (src/src/parser.ts, Parser.findUnusedImports).   *)
(*                                                                         *)
(* Text is modelled character by character: a JavaScript string is a       *)
(* sequence of one-character strings, so that String.includes,             *)
(* String.replace, the regular expressions of the fixer and the            *)
(* split/join round trip of a file are computed, not assumed.              *)
(***************************************************************************)
EXTENDS Integers, Sequences, FiniteSets, TLC

(***************************************************************************)
(* Bounds of the model.                                                    *)
(***************************************************************************)
\* largest number of findings (imports and dependencies together) in the
\* AnalysisResult handed to AutoFixer.fix
MaxFindings == 2

(***************************************************************************)
(* JavaScript strings as sequences of characters.                          *)
(***************************************************************************)
NL == "\n"

\* \s of a JavaScript regular expression, within one line of a file
IsSpace(c) == c \in {" ", "\t"}

\* \w of a JavaScript regular expression
IsWordChar(c) ==
  c \in {"a","b","c","d","e","f","g","h","i","j","k","l","m","n","o","p","q",
         "r","s","t","u","v","w","x","y","z","A","B","C","D","E","F","G","H",
         "I","J","K","L","M","N","O","P","Q","R","S","T","U","V","W","X","Y",
         "Z","0","1","2","3","4","5","6","7","8","9","_"}

\* p occurs in s starting at (1-based) position i
MatchAt(s, i, p) ==
  /\ i >= 1
  /\ i + Len(p) - 1 <= Len(s)
  /\ \A k \in 1..Len(p) : s[i + k - 1] = p[k]

\* String.prototype.indexOf, 1-based; 0 when p does not occur
IndexOf(s, p) ==
  IF \E i \in 1..(Len(s) + 1) : MatchAt(s, i, p)
  THEN CHOOSE i \in 1..(Len(s) + 1) :
         /\ MatchAt(s, i, p)
         /\ \A j \in 1..(i - 1) : ~MatchAt(s, j, p)
  ELSE 0

\* String.prototype.includes
Includes(s, p) == IndexOf(s, p) # 0

\* String.prototype.startsWith
StartsWith(s, p) == MatchAt(s, 1, p)

\* s without the n characters from position i on; s itself when i = 0
CutAt(s, i, n) ==
  IF i = 0 THEN s ELSE SubSeq(s, 1, i - 1) \o SubSeq(s, i + n, Len(s))

\* s.replace(p, '') with a string pattern: only the first occurrence goes
RemoveFirst(s, p) == CutAt(s, IndexOf(s, p), Len(p))

\* first position >= i of s that does not hold a whitespace character
RECURSIVE SkipSpace(_, _)
SkipSpace(s, i) ==
  IF i <= Len(s) /\ IsSpace(s[i]) THEN SkipSpace(s, i + 1) ELSE i

\* content.split('\n'); SplitAt is Split once the first newline is found at i
RECURSIVE Split(_), SplitAt(_, _)
Split(s) == SplitAt(s, IndexOf(s, <<NL>>))

SplitAt(s, i) ==
  IF i = 0 THEN <<s>>
  ELSE <<SubSeq(s, 1, i - 1)>> \o Split(SubSeq(s, i + 1, Len(s)))

\* lines.join('\n')
RECURSIVE Join(_)
Join(ls) ==
  IF ls = <<>> THEN <<>>
  ELSE IF Len(ls) = 1 THEN ls[1]
  ELSE ls[1] \o <<NL>> \o Join(Tail(ls))

(***************************************************************************)
(* The regular expressions of fixer.ts, each as the scan the engine does:  *)
(* leftmost match first, \s* greedy, and for a /g replace the scan resumes *)
(* after the text a match consumed.                                        *)
(***************************************************************************)
\* s.replace(/<open>\s*<close>/g, rep) for one-character open and close
RECURSIVE ReplacePairFrom(_, _, _, _, _)
ReplacePairFrom(s, i, open, close, rep) ==
  IF i > Len(s) THEN <<>>
  ELSE IF s[i] = open
          /\ SkipSpace(s, i + 1) <= Len(s)
          /\ s[SkipSpace(s, i + 1)] = close
       THEN rep \o ReplacePairFrom(s, SkipSpace(s, i + 1) + 1, open, close, rep)
       ELSE <<s[i]>> \o ReplacePairFrom(s, i + 1, open, close, rep)

\* s.replace(/,\s*,/g, ',')
CollapseCommas(s) == ReplacePairFrom(s, 1, ",", ",", <<",">>)

\* s.replace(/,\s*}/g, ' }')
CommaBeforeBrace(s) == ReplacePairFrom(s, 1, ",", "}", <<" ", "}">>)

\* s.replace(/{\s*,/g, '{ ')
CommaAfterBrace(s) == ReplacePairFrom(s, 1, "{", ",", <<"{", " ">>)

kwImport == <<"i","m","p","o","r","t">>
kwFrom == <<"f","r","o","m">>
kwAs == <<"a","s">>

\* /import\s+from/ matches at position i
EmptyDefaultAt(s, i) ==
  /\ MatchAt(s, i, kwImport)
  /\ SkipSpace(s, i + 6) > i + 6
  /\ MatchAt(s, SkipSpace(s, i + 6), kwFrom)

\* /import\s+{\s*}\s+from/ matches at position i
EmptyBracesAt(s, i) ==
  LET a == SkipSpace(s, i + 6)
      b == SkipSpace(s, a + 1)
      c == SkipSpace(s, b + 1)
  IN  /\ MatchAt(s, i, kwImport)
      /\ a > i + 6
      /\ MatchAt(s, a, <<"{">>)
      /\ MatchAt(s, b, <<"}">>)
      /\ c > b + 1
      /\ MatchAt(s, c, kwFrom)

\* length of the match of /\b<name>\b,?\s*/ at position i, 0 when none
\* (name is made of word characters, so each \b asks for a non-word
\* neighbour or an end of the string)
NameMatchLen(s, i, name) ==
  LET e == i + Len(name)
      f == IF e <= Len(s) /\ s[e] = "," THEN e + 1 ELSE e
  IN  IF /\ MatchAt(s, i, name)
         /\ (i = 1 \/ ~IsWordChar(s[i - 1]))
         /\ (e > Len(s) \/ ~IsWordChar(s[e]))
      THEN SkipSpace(s, f) - i
      ELSE 0

\* s.replace(new RegExp(`\\b${name}\\b,?\\s*`, 'g'), '')
RECURSIVE RemoveNameFrom(_, _, _)
RemoveNameFrom(s, i, name) ==
  IF i > Len(s) THEN <<>>
  ELSE IF NameMatchLen(s, i, name) > 0
       THEN RemoveNameFrom(s, i + NameMatchLen(s, i, name), name)
       ELSE <<s[i]>> \o RemoveNameFrom(s, i + 1, name)

(***************************************************************************)
(* AutoFixer's two line heuristics.                                        *)
(***************************************************************************)
\* the two match tests of fixer.ts:135-136
IsEmptyImport(withoutImport) ==
  \/ \E i \in 1..Len(withoutImport) : EmptyBracesAt(withoutImport, i)
  \/ \E i \in 1..Len(withoutImport) : EmptyDefaultAt(withoutImport, i)

\* isOnlyImportOnLine without the test for an emptied default import
LeavesEmptyBraces(line, importName) ==
  \E i \in 1..Len(line) :
    EmptyBracesAt(CollapseCommas(RemoveFirst(line, importName)), i)

isOnlyImportOnLine(line, importName) ==
  IsEmptyImport(CollapseCommas(RemoveFirst(line, importName)))

removeImportFromLine(line, importName) ==
  CollapseCommas(CommaAfterBrace(CommaBeforeBrace(
    RemoveNameFrom(line, 1, importName))))

(***************************************************************************)
(* Source text the model runs on.  Every statement sits on one line.       *)
(***************************************************************************)
Q == "'"

ImportDefaultLine(name, src) ==
  kwImport \o <<" ">> \o name \o <<" ">> \o kwFrom \o <<" ", Q>> \o src \o <<Q>>

ImportNamedLine(n1, n2, src) ==
  kwImport \o <<" ", "{", " ">> \o n1 \o <<",", " ">> \o n2 \o <<" ", "}", " ">>
    \o kwFrom \o <<" ", Q>> \o src \o <<Q>>

ImportNamespaceLine(name, src) ==
  kwImport \o <<" ", "*", " ">> \o kwAs \o <<" ">> \o name \o <<" ">> \o kwFrom
    \o <<" ", Q>> \o src \o <<Q>>

UseLine(name) == name \o <<";">>

CallLine(name) == name \o <<"(", ")", ";">>

\* import unused from 'pkg' / run();
SrcRoundTrip ==
  Join(<< ImportDefaultLine(<<"u","n","u","s","e","d">>, <<"p","k","g">>),
          CallLine(<<"r","u","n">>) >>)

\* import a from 'pa' / import { b, c } from 'pb' / import d from 'pd' / c;
SrcThree ==
  Join(<< ImportDefaultLine(<<"a">>, <<"p","a">>),
          ImportNamedLine(<<"b">>, <<"c">>, <<"p","b">>),
          ImportDefaultLine(<<"d">>, <<"p","d">>),
          UseLine(<<"c">>) >>)

\* import * as ns from 'lib' / import m from 'mod' / go();
SrcQuirks ==
  Join(<< ImportNamespaceLine(<<"n","s">>, <<"l","i","b">>),
          ImportDefaultLine(<<"m">>, <<"m","o","d">>),
          CallLine(<<"g","o">>) >>)

FileA == "src/a.ts"
FileB == "src/b.ts"
FileC == "src/c.tsx"
SourceFiles == {FileA, FileB}
\* path.join(process.cwd(), 'package.json')
packageJsonPath == "package.json"
\* a configuration file of the project root
ConfigFile == "vite.config.ts"
Paths == SourceFiles \cup {FileC, ConfigFile, packageJsonPath}

\* fast-glob's traversal order of the source files
FileOrder == <<FileA, FileB>>

(***************************************************************************)
(* The Babel front end, restricted to the one-line statements above:       *)
(* import declarations in all their clause forms, expression statements    *)
(* built from identifiers, member access and calls, and (with the jsx      *)
(* plugin) a self-closing JSX element.  Any other line is a syntax error.  *)
(***************************************************************************)
IsIdentChar(c) == IsWordChar(c) \/ c = "$"

RECURSIVE IdentEnd(_, _)
IdentEnd(s, i) ==
  IF i <= Len(s) /\ IsIdentChar(s[i]) THEN IdentEnd(s, i + 1) ELSE i

RECURSIVE QuoteEnd(_, _)
\* position of the closing quote of a string literal, Len(s)+1 when unclosed
QuoteEnd(s, i) ==
  IF i <= Len(s) /\ s[i] # Q THEN QuoteEnd(s, i + 1) ELSE i

\* tokens of a line from position i on: [kind, text, col], col 0-based
RECURSIVE Tokens(_, _)
Tokens(s, i) ==
  IF i > Len(s) THEN <<>>
  ELSE IF IsSpace(s[i]) THEN Tokens(s, i + 1)
  ELSE IF IsIdentChar(s[i]) THEN
    <<[kind |-> "id", text |-> SubSeq(s, i, IdentEnd(s, i) - 1), col |-> i - 1]>>
      \o Tokens(s, IdentEnd(s, i))
  ELSE IF s[i] = Q THEN
    IF QuoteEnd(s, i + 1) > Len(s)
    THEN <<[kind |-> "bad", text |-> <<>>, col |-> i - 1]>>
    ELSE <<[kind |-> "str", text |-> SubSeq(s, i + 1, QuoteEnd(s, i + 1) - 1),
            col |-> i - 1]>> \o Tokens(s, QuoteEnd(s, i + 1) + 1)
  ELSE <<[kind |-> "punct", text |-> <<s[i]>>, col |-> i - 1]>>
         \o Tokens(s, i + 1)

IsId(t) == t.kind = "id"
IsWord(t, w) == t.kind = "id" /\ t.text = w
IsPunct(t, c) == t.kind = "punct" /\ t.text = <<c>>
IsStr(t) == t.kind = "str"

\* the tokens without one trailing semicolon
DropSemi(ts) ==
  IF ts # <<>> /\ IsPunct(ts[Len(ts)], ";") THEN SubSeq(ts, 1, Len(ts) - 1)
  ELSE ts

SyntaxError == [ok |-> FALSE, specs |-> <<>>, source |-> <<>>, ids |-> {},
                jsx |-> FALSE, module |-> FALSE, script |-> FALSE]

NoStatement == [ok |-> TRUE, specs |-> <<>>, source |-> <<>>, ids |-> {},
                jsx |-> FALSE, module |-> FALSE, script |-> FALSE]

\* what a specifier list holds when its tokens do not parse
BadSpec == <<[name |-> <<>>, col |-> -1, isDefault |-> FALSE, isNamespace |-> FALSE]>>

HasBadSpec(specs) == \E k \in 1..Len(specs) : specs[k].col = -1

\* the specifiers between the braces of an import clause, tokens ts[i..j]:
\* name (, name)* with an optional trailing comma, or nothing; BadSpec
\* when the tokens are not such a list
RECURSIVE NamedSpecs(_, _, _)
NamedSpecs(ts, i, j) ==
  IF i > j THEN <<>>
  ELSE IF ~IsId(ts[i]) THEN BadSpec
  ELSE IF i = j THEN <<[name |-> ts[i].text, col |-> ts[i].col,
                        isDefault |-> FALSE, isNamespace |-> FALSE]>>
  ELSE IF i + 2 <= j /\ IsWord(ts[i + 1], kwAs) /\ IsId(ts[i + 2]) THEN
    \* "imported as local": the local name is recorded, at the specifier start
    LET rest == IF i + 2 = j THEN <<>>
                ELSE IF IsPunct(ts[i + 3], ",") THEN NamedSpecs(ts, i + 4, j)
                ELSE BadSpec
    IN  IF HasBadSpec(rest) THEN BadSpec
        ELSE <<[name |-> ts[i + 2].text, col |-> ts[i].col,
                isDefault |-> FALSE, isNamespace |-> FALSE]>> \o rest
  ELSE IF IsPunct(ts[i + 1], ",") THEN
    LET rest == NamedSpecs(ts, i + 2, j)
    IN  IF HasBadSpec(rest) THEN BadSpec
        ELSE <<[name |-> ts[i].text, col |-> ts[i].col,
                isDefault |-> FALSE, isNamespace |-> FALSE]>> \o rest
  ELSE BadSpec

\* the import clause ts[i..j] (between `import` and `from`)
ImportClause(ts, i, j) ==
  LET dflt(k) == <<[name |-> ts[k].text, col |-> ts[k].col,
                    isDefault |-> TRUE, isNamespace |-> FALSE]>>
      ns(k) == <<[name |-> ts[k + 2].text, col |-> ts[k].col,
                  isDefault |-> FALSE, isNamespace |-> TRUE]>>
      isNs(k) == /\ k + 2 = j
                 /\ IsPunct(ts[k], "*") /\ IsWord(ts[k + 1], kwAs) /\ IsId(ts[k + 2])
      isBraces(k) == k < j /\ IsPunct(ts[k], "{") /\ IsPunct(ts[j], "}")
  IN  IF i > j THEN BadSpec
      ELSE IF i = j THEN (IF IsId(ts[i]) THEN dflt(i) ELSE BadSpec)
      ELSE IF isNs(i) THEN ns(i)
      ELSE IF isBraces(i) THEN NamedSpecs(ts, i + 1, j - 1)
      ELSE IF IsId(ts[i]) /\ IsPunct(ts[i + 1], ",") /\ i + 2 <= j THEN
        IF isNs(i + 2) THEN dflt(i) \o ns(i + 2)
        ELSE IF isBraces(i + 2) THEN
          LET named == NamedSpecs(ts, i + 3, j - 1)
          IN  IF HasBadSpec(named) THEN BadSpec
              ELSE dflt(i) \o named
        ELSE BadSpec
      ELSE BadSpec

\* an expression statement: name (. name)* with an optional call ()
RECURSIVE IsMemberChain(_, _, _)
IsMemberChain(ts, i, j) ==
  /\ i <= j
  /\ IsId(ts[i])
  /\ \/ i = j
     \/ i + 2 = j /\ IsPunct(ts[i + 1], "(") /\ IsPunct(ts[j], ")")
     \/ i + 2 <= j /\ IsPunct(ts[i + 1], ".") /\ IsMemberChain(ts, i + 2, j)

kwAwait == <<"a","w","a","i","t">>

\* an import declaration with the specifiers `specs` and the source `source`
ImportStatement(specs, source) ==
  IF HasBadSpec(specs) THEN SyntaxError
  ELSE [NoStatement EXCEPT !.specs = specs, !.source = source, !.module = TRUE]

\* the n tokens ts of one line as a statement; jsx: is the jsx plugin on
ParseTokens(ts, n, jsx) ==
  IF \E k \in 1..n : ts[k].kind = "bad" THEN SyntaxError
  ELSE IF n = 0 THEN NoStatement
  ELSE IF IsWord(ts[1], kwImport) THEN
    IF n = 2 /\ IsStr(ts[2])
    THEN ImportStatement(<<>>, ts[2].text)
    ELSE IF n >= 4 /\ IsStr(ts[n]) /\ IsWord(ts[n - 1], kwFrom)
    THEN ImportStatement(ImportClause(ts, 2, n - 2), ts[n].text)
    ELSE SyntaxError
  ELSE IF n = 4 /\ IsPunct(ts[1], "<") /\ IsId(ts[2])
          /\ IsPunct(ts[3], "/") /\ IsPunct(ts[4], ">") THEN
    IF jsx THEN [NoStatement EXCEPT !.jsx = TRUE] ELSE SyntaxError
  ELSE IF n = 5 /\ IsPunct(ts[1], "<") /\ IsPunct(ts[2], ">")
          /\ IsPunct(ts[3], "<") /\ IsPunct(ts[4], "/") /\ IsPunct(ts[5], ">") THEN
    \* the fragment <></>
    IF jsx THEN [NoStatement EXCEPT !.jsx = TRUE] ELSE SyntaxError
  ELSE IF IsMemberChain(ts, 1, n) THEN
    [NoStatement EXCEPT
       !.ids = {ts[k].text : k \in {k \in 1..n : IsId(ts[k])}},
       \* `await` as a plain identifier is script-only syntax
       !.script = \E k \in 1..n : IsWord(ts[k], kwAwait)]
  ELSE SyntaxError

\* StatementOf with the Identifier visitor of parser.ts:154-174 left out
StatementWithoutIdentifiers(ts, jsx) ==
  [ParseTokens(ts, Len(ts), jsx) EXCEPT !.ids = {}]

StatementOf(ts, jsx) == ParseTokens(ts, Len(ts), jsx)

\* one line as a statement
ParseLine(line, jsx) == StatementOf(DropSemi(Tokens(line, 1)), jsx)

EndsWith(path, ext) ==
  \E stem \in {"src/a", "src/b", "src/c", "package"} : path = stem \o ext

RECURSIVE ImportInfos(_, _)
\* the `imports` array: one ImportInfo per specifier, in source order
ImportInfos(stmts, lineNo) ==
  IF lineNo > Len(stmts) THEN <<>>
  ELSE [k \in 1..Len(stmts[lineNo].specs) |->
          [name |-> stmts[lineNo].specs[k].name,
           source |-> stmts[lineNo].source,
           line |-> lineNo,
           column |-> stmts[lineNo].specs[k].col,
           isDefault |-> stmts[lineNo].specs[k].isDefault,
           isNamespace |-> stmts[lineNo].specs[k].isNamespace]]
       \o ImportInfos(stmts, lineNo + 1)

ParseFailure == [ok |-> FALSE, imports |-> <<>>, usedIdentifiers |-> {},
                 hasJSX |-> FALSE]

\* the statements of the lines of a file
Statements(lines, jsx) == [k \in 1..Len(lines) |-> ParseLine(lines[k], jsx)]

\* parser.parse with sourceType 'module' accepts the statements
ParsesAsModule(stmts) ==
  /\ \A k \in 1..Len(stmts) : stmts[k].ok
  /\ ~\E k \in 1..Len(stmts) : stmts[k].script

\* parser.parse with sourceType 'unambiguous' accepts them: as a script when
\* they hold script-only syntax, which then excludes module syntax
ParsesAsUnambiguous(stmts) ==
  /\ \A k \in 1..Len(stmts) : stmts[k].ok
  /\ ~(/\ \E k \in 1..Len(stmts) : stmts[k].script
       /\ \E k \in 1..Len(stmts) : stmts[k].module)

\* Analyse with the JSX visitors of parser.ts:145-151 left out
AnalyseWithoutJsx(stmts) ==
  IF ParsesAsModule(stmts) \/ ParsesAsUnambiguous(stmts)
  THEN [ok |-> TRUE,
        imports |-> ImportInfos(stmts, 1),
        usedIdentifiers |-> UNION {stmts[k].ids : k \in 1..Len(stmts)},
        hasJSX |-> FALSE]
  ELSE ParseFailure

\* parser.ts:66-183: the two parse attempts, then the traversal
Analyse(stmts) ==
  IF ParsesAsModule(stmts) \/ ParsesAsUnambiguous(stmts)
  THEN [ok |-> TRUE,
        imports |-> ImportInfos(stmts, 1),
        usedIdentifiers |-> UNION {stmts[k].ids : k \in 1..Len(stmts)},
        hasJSX |-> \E k \in 1..Len(stmts) : stmts[k].jsx]
  ELSE ParseFailure

\* Parser.parseCode: a FileAnalysis, or a thrown syntax error (ok = FALSE)
parseCode(code, filePath) ==
  Analyse(Statements(Split(code),
                     EndsWith(filePath, ".jsx") \/ EndsWith(filePath, ".tsx")))

kwReact == <<"R","e","a","c","t">>

\* IsUsed by the first test alone (parser.ts:198)
UsedByName(imp, analysis) == imp.name \in analysis.usedIdentifiers

\* the body of the forEach of Parser.findUnusedImports
IsUsed(imp, analysis) ==
  \/ imp.name \in analysis.usedIdentifiers
  \/ imp.name = kwReact /\ analysis.hasJSX
  \/ /\ imp.isNamespace
     /\ \E identifier \in analysis.usedIdentifiers :
          StartsWith(identifier, imp.name \o <<".">>)

\* the confidence of an unused-import finding, in hundredths
ImportConfidence == 95

\* the UnusedImport pushed for an import (parser.ts:217-224)
UnusedImport(imp, filePath) ==
  [file |-> filePath, line |-> imp.line, column |-> imp.column,
   importName |-> imp.name, source |-> imp.source,
   confidence |-> ImportConfidence]

RECURSIVE UnusedFrom(_, _, _)
\* the forEach of parser.ts:196-226 from the k-th import on
UnusedFrom(analysis, filePath, k) ==
  IF k > Len(analysis.imports) THEN <<>>
  ELSE (IF IsUsed(analysis.imports[k], analysis) THEN <<>>
        ELSE <<UnusedImport(analysis.imports[k], filePath)>>)
       \o UnusedFrom(analysis, filePath, k + 1)

\* parser.ts:190-228 on the result of parseFile
UnusedOf(analysis, filePath) ==
  IF ~analysis.ok THEN <<>> ELSE UnusedFrom(analysis, filePath, 1)

\* parseFile without the catch of parser.ts:35-38 around the read
parseFileUnguarded(content, filePath, readable) == parseCode(content, filePath)

\* Parser.parseFile; readable = FALSE is a read error, which becomes null
\* like a syntax error
parseFile(content, filePath, readable) ==
  IF readable THEN parseCode(content, filePath) ELSE ParseFailure

\* Parser.findUnusedImports on a file holding `content`
findUnusedImports(content, filePath, readable) ==
  UnusedOf(parseFile(content, filePath, readable), filePath)

(***************************************************************************)
(* The project manifest.  On disk it is either text that JSON.parse        *)
(* rejects or a JSON document; of a document the model keeps the three     *)
(* dependency maps (a map that is absent from the document is not in       *)
(* `sections`), one unrelated key, and the layout of the text: as its      *)
(* author left it, or as JSON.stringify(doc, null, 2) + '\n' writes it.    *)
(***************************************************************************)
NoEntries == [n \in {} |-> ""]

Without(map, name) == [n \in DOMAIN map \ {name} |-> map[n]]

\* obj?.[name] used as a condition: an own entry with a non-empty version
Truthy(map, name) == name \in DOMAIN map /\ map[name] # ""

ManifestFull ==
  [valid |-> TRUE, layout |-> "authored", name |-> "proj",
   sections |-> {"dependencies", "devDependencies", "peerDependencies"},
   dependencies |-> [n \in {"lodash", "chalk"} |->
                       IF n = "lodash" THEN "1.0.0" ELSE ""],
   devDependencies |-> [n \in {"lodash", "mocha"} |->
                          IF n = "lodash" THEN "2.0.0" ELSE "3.0.0"],
   peerDependencies |-> [n \in {"lodash"} |-> "1.0.0"]]

ManifestBare ==
  [valid |-> TRUE, layout |-> "authored", name |-> "proj", sections |-> {},
   dependencies |-> NoEntries, devDependencies |-> NoEntries,
   peerDependencies |-> NoEntries]

ManifestBroken == [ManifestBare EXCEPT !.valid = FALSE]

Manifests == {ManifestFull, ManifestBare, ManifestBroken}

(***************************************************************************)
(* AutoFixer.                                                              *)
(***************************************************************************)
\* the safe-mode floor 0.8, in hundredths
SafeModeFloor == 80

\* Eligible without the confidence test
EligibleWhateverConfidence(finding, opts) == TRUE

\* the guard of fixer.ts:75 and :173 with the floor at 0.75
EligibleFromThreeQuarters(finding, opts) ==
  ~(opts.safeMode /\ finding.confidence < 75)

\* the guard of fixer.ts:75 and :173, negated
Eligible(finding, opts) ==
  ~(opts.safeMode /\ finding.confidence < SafeModeFloor)

\* the Map byFile of fixUnusedImports as its entries in insertion order
RECURSIVE GroupByFile(_, _)
GroupByFile(imports, opts) ==
  IF imports = <<>> THEN <<>>
  ELSE
    LET n == Len(imports)
        imp == imports[n]
        before == GroupByFile(SubSeq(imports, 1, n - 1), opts)
    IN  IF ~Eligible(imp, opts) THEN before
        ELSE IF \E k \in 1..Len(before) : before[k].filePath = imp.file
        THEN [k \in 1..Len(before) |->
                IF before[k].filePath = imp.file
                THEN [before[k] EXCEPT !.imports = Append(@, imp)]
                ELSE before[k]]
        ELSE Append(before, [filePath |-> imp.file, imports |-> <<imp>>])

\* SortByLineDesc without the sort
InInputOrder(imports) == imports

\* imports.sort((a, b) => b.line - a.line): stable, descending line
RECURSIVE SortByLineDesc(_)
SortByLineDesc(imports) ==
  IF imports = <<>> THEN <<>>
  ELSE
    LET n == Len(imports)
        last == imports[n]
        sorted == SortByLineDesc(SubSeq(imports, 1, n - 1))
        \* last goes behind every element whose line is not smaller
        k == Cardinality({j \in 1..Len(sorted) : sorted[j].line >= last.line})
    IN  SubSeq(sorted, 1, k) \o <<last>> \o SubSeq(sorted, k + 1, Len(sorted))

\* lines.splice(lineIndex, 1), lineIndex 0-based
Splice(lines, lineIndex) ==
  SubSeq(lines, 1, lineIndex) \o SubSeq(lines, lineIndex + 2, Len(lines))

\* fixer.ts:108-113: the line is kept, with newLine in its place
ReplaceLine(ed, lineIndex, line, newLine) ==
  IF newLine # line
  THEN [lines |-> [ed.lines EXCEPT ![lineIndex + 1] = newLine],
        modified |-> TRUE, removed |-> ed.removed + 1]
  ELSE ed

\* fixer.ts:97-115 counting a removal for a line that does not match
EditLineCounting(ed, lineIndex, line, imp) ==
  IF ~(Includes(line, imp.importName) /\ Includes(line, imp.source))
  THEN [ed EXCEPT !.removed = @ + 1]
  ELSE IF isOnlyImportOnLine(line, imp.importName)
  THEN [lines |-> Splice(ed.lines, lineIndex), modified |-> TRUE,
        removed |-> ed.removed + 1]
  ELSE ReplaceLine(ed, lineIndex, line,
                   removeImportFromLine(line, imp.importName))

\* fixer.ts:97-115 on the line found at lineIndex
EditLine(ed, lineIndex, line, imp) ==
  IF ~(Includes(line, imp.importName) /\ Includes(line, imp.source)) THEN ed
  ELSE IF isOnlyImportOnLine(line, imp.importName)
  THEN [lines |-> Splice(ed.lines, lineIndex), modified |-> TRUE,
        removed |-> ed.removed + 1]
  ELSE ReplaceLine(ed, lineIndex, line,
                   removeImportFromLine(line, imp.importName))

\* one turn of the loop over sortedImports (fixer.ts:94-117) on
\* ed = [lines, modified, removed]; lineIndex is imp.line - 1
EditImport(ed, imp) ==
  IF ~(imp.line - 1 >= 0 /\ imp.line - 1 < Len(ed.lines)) THEN ed
  ELSE EditLine(ed, imp.line - 1, ed.lines[imp.line], imp)

RECURSIVE EditAll(_, _)
EditAll(ed, sortedImports) ==
  IF sortedImports = <<>> THEN ed
  ELSE EditAll(EditImport(ed, Head(sortedImports)), Tail(sortedImports))

\* the edits of one file: the loop of fixer.ts:94-117 over the sorted findings
EditLines(lines, imports) ==
  EditAll([lines |-> lines, modified |-> FALSE, removed |-> 0],
          SortByLineDesc(imports))

\* a call the fixer made on the file system or on a collaborator
Event(op, path, ok) == [op |-> op, path |-> path, ok |-> ok]

ImportError(filePath) == <<"Failed to fix imports in ", filePath>>
DependencyError == <<"Failed to fix dependencies in package.json">>
TestsFailedError == <<"Tests failed after cleanup">>

\* the world the fixer acts on: the files, the manifest, the FixResult under
\* construction and the calls made so far
World(f, m, r, l) == [fs |-> f, manifest |-> m, fixResult |-> r, log |-> l]

\* WriteImports without the test of `modified` (fixer.ts:119)
WriteImportsUnconditionally(w, filePath, ed, canWrite) ==
  IF ~canWrite
  THEN [w EXCEPT !.fixResult.importsRemoved = @ + ed.removed,
                 !.fixResult.errors = Append(@, ImportError(filePath)),
                 !.log = Append(@, Event("write", filePath, FALSE))]
  ELSE [w EXCEPT !.fs[filePath] = Join(ed.lines),
                 !.fixResult.importsRemoved = @ + ed.removed,
                 !.fixResult.filesModified = Append(@, filePath),
                 !.log = Append(@, Event("write", filePath, TRUE))]

\* fixer.ts:119-125 once the edits ed of filePath are made; the removals
\* were counted in fixResult as they happened
WriteImports(w, filePath, ed, canWrite) ==
  IF ~ed.modified
  THEN [w EXCEPT !.fixResult.importsRemoved = @ + ed.removed]
  ELSE IF ~canWrite
  THEN [w EXCEPT !.fixResult.importsRemoved = @ + ed.removed,
                 !.fixResult.errors = Append(@, ImportError(filePath)),
                 !.log = Append(@, Event("write", filePath, FALSE))]
  ELSE [w EXCEPT !.fs[filePath] = Join(ed.lines),
                 !.fixResult.importsRemoved = @ + ed.removed,
                 !.fixResult.filesModified = Append(@, filePath),
                 !.log = Append(@, Event("write", filePath, TRUE))]

\* can filePath be read in a run where the operations io fail
CanRead(filePath, io) ==
  filePath \in Paths /\ <<"read", filePath>> \notin io

CanWrite(filePath, io) == <<"write", filePath>> \notin io

\* FixImportsOfFile with a catch that reports nothing
FixImportsOfFileSilently(w, entry, io) ==
  IF ~CanRead(entry.filePath, io)
  THEN [w EXCEPT !.log = Append(@, Event("read", entry.filePath, FALSE))]
  ELSE [WriteImports([w EXCEPT !.log = Append(@, Event("read", entry.filePath, TRUE))],
                     entry.filePath,
                     EditLines(Split(w.fs[entry.filePath]), entry.imports),
                     CanWrite(entry.filePath, io))
          EXCEPT !.fixResult.errors = w.fixResult.errors]

\* the body of the loop of fixer.ts:85-126 for one entry of byFile; io is
\* the set of <<operation, path>> that fail in this run
FixImportsOfFile(w, entry, io) ==
  IF ~CanRead(entry.filePath, io)
  THEN [w EXCEPT !.fixResult.errors = Append(@, ImportError(entry.filePath)),
                 !.log = Append(@, Event("read", entry.filePath, FALSE))]
  ELSE WriteImports([w EXCEPT !.log = Append(@, Event("read", entry.filePath, TRUE))],
                    entry.filePath,
                    EditLines(Split(w.fs[entry.filePath]), entry.imports),
                    CanWrite(entry.filePath, io))

\* the forEach of fixer.ts:171-189 without the tests of dep.type
RemoveFromEitherMap(acc, dep, opts) ==
  IF ~Eligible(dep, opts) THEN acc
  ELSE IF Truthy(acc.doc.dependencies, dep.name)
  THEN [doc |-> [acc.doc EXCEPT !.dependencies = Without(@, dep.name)],
        modified |-> TRUE, removed |-> Append(acc.removed, dep.name)]
  ELSE IF Truthy(acc.doc.devDependencies, dep.name)
  THEN [doc |-> [acc.doc EXCEPT !.devDependencies = Without(@, dep.name)],
        modified |-> TRUE, removed |-> Append(acc.removed, dep.name)]
  ELSE acc

\* one turn of the forEach of fixer.ts:171-189 on
\* acc = [doc, modified, removed]
RemoveDependency(acc, dep, opts) ==
  IF ~Eligible(dep, opts) THEN acc
  ELSE IF dep.type = "dependency" /\ Truthy(acc.doc.dependencies, dep.name)
  THEN [doc |-> [acc.doc EXCEPT !.dependencies = Without(@, dep.name)],
        modified |-> TRUE, removed |-> Append(acc.removed, dep.name)]
  ELSE IF dep.type = "devDependency" /\ Truthy(acc.doc.devDependencies, dep.name)
  THEN [doc |-> [acc.doc EXCEPT !.devDependencies = Without(@, dep.name)],
        modified |-> TRUE, removed |-> Append(acc.removed, dep.name)]
  ELSE acc

RECURSIVE RemoveAll(_, _, _)
RemoveAll(acc, deps, opts) ==
  IF deps = <<>> THEN acc
  ELSE RemoveAll(RemoveDependency(acc, Head(deps), opts), Tail(deps), opts)

\* WriteManifest without the test of `modified` (fixer.ts:191)
WriteManifestUnconditionally(w, acc, canWrite) ==
  IF ~canWrite
  THEN [w EXCEPT !.fixResult.dependenciesRemoved = @ \o acc.removed,
                 !.fixResult.errors = Append(@, DependencyError),
                 !.log = Append(@, Event("write", packageJsonPath, FALSE))]
  ELSE [w EXCEPT !.manifest = [acc.doc EXCEPT !.layout = "indent2"],
                 !.fixResult.dependenciesRemoved = @ \o acc.removed,
                 !.fixResult.filesModified = Append(@, packageJsonPath),
                 !.log = Append(@, Event("write", packageJsonPath, TRUE))]

\* fixer.ts:191-200 once the deletions acc are made in memory; the names
\* were pushed on dependenciesRemoved as they were deleted
WriteManifest(w, acc, canWrite) ==
  IF ~acc.modified
  THEN [w EXCEPT !.fixResult.dependenciesRemoved = @ \o acc.removed]
  ELSE IF ~canWrite
  THEN [w EXCEPT !.fixResult.dependenciesRemoved = @ \o acc.removed,
                 !.fixResult.errors = Append(@, DependencyError),
                 !.log = Append(@, Event("write", packageJsonPath, FALSE))]
  ELSE [w EXCEPT !.manifest = [acc.doc EXCEPT !.layout = "indent2"],
                 !.fixResult.dependenciesRemoved = @ \o acc.removed,
                 !.fixResult.filesModified = Append(@, packageJsonPath),
                 !.log = Append(@, Event("write", packageJsonPath, TRUE))]

\* fixUnusedDependencies with a catch that also marks the run as failed
FixDependenciesFlagging(w, deps, opts, io) ==
  IF ~CanRead(packageJsonPath, io) \/ ~w.manifest.valid
  THEN [w EXCEPT !.fixResult.errors = Append(@, DependencyError),
                 !.fixResult.success = FALSE,
                 !.log = Append(@, Event("read", packageJsonPath,
                                         CanRead(packageJsonPath, io)))]
  ELSE WriteManifest([w EXCEPT !.log = Append(@, Event("read", packageJsonPath, TRUE))],
                     RemoveAll([doc |-> w.manifest, modified |-> FALSE,
                                removed |-> <<>>], deps, opts),
                     CanWrite(packageJsonPath, io))

\* AutoFixer.fixUnusedDependencies; a manifest that cannot be read and one
\* that JSON.parse rejects end in the same catch
FixDependencies(w, deps, opts, io) ==
  IF ~CanRead(packageJsonPath, io) \/ ~w.manifest.valid
  THEN [w EXCEPT !.fixResult.errors = Append(@, DependencyError),
                 !.log = Append(@, Event("read", packageJsonPath,
                                         CanRead(packageJsonPath, io)))]
  ELSE WriteManifest([w EXCEPT !.log = Append(@, Event("read", packageJsonPath, TRUE))],
                     RemoveAll([doc |-> w.manifest, modified |-> FALSE,
                                removed |-> <<>>], deps, opts),
                     CanWrite(packageJsonPath, io))

\* AutoFixer.rollback: a warning is printed, no file is touched
rollback(w, files) == [w EXCEPT !.log = Append(@, Event("rollback", files, TRUE))]

\* AfterTests with the failure branch of fixer.ts:47-52 left out
AfterTestsIgnoringVerdict(w, testsPass) ==
  [w EXCEPT !.log = Append(@, Event("runTests", <<>>, testsPass))]

\* fixer.ts:46-52 once runTests has answered testsPass
AfterTests(w, testsPass) ==
  IF testsPass
  THEN [w EXCEPT !.log = Append(@, Event("runTests", <<>>, TRUE))]
  ELSE rollback([w EXCEPT !.log = Append(@, Event("runTests", <<>>, FALSE)),
                          !.fixResult.success = FALSE,
                          !.fixResult.errors = Append(@, TestsFailedError)],
                w.fixResult.filesModified)

\* AutoFixer.runTests hands the verdict of the project's test run back to
\* fix.  The body shipped in fixer.ts is a placeholder that answers true;
\* the verdict belongs to the external test runner, so the model draws it
\* from both answers and the branch of fixer.ts:47-52 is exercised.
TestVerdicts == BOOLEAN

\* the FixResult of fixer.ts:29-35
NewFixResult ==
  [success |-> TRUE, filesModified |-> <<>>, importsRemoved |-> 0,
   dependenciesRemoved |-> <<>>, errors |-> <<>>]

RECURSIVE FixImports(_, _, _)
\* the loop of fixer.ts:85-126 over the entries of byFile
FixImports(w, entries, io) ==
  IF entries = <<>> THEN w
  ELSE FixImports(FixImportsOfFile(w, Head(entries), io), Tail(entries), io)

\* fixer.ts:45 without the look at filesModified
TestsWheneverAsked(w, opts) == opts.requireTests

\* does fix call runTests (fixer.ts:45)
TestsRequired(w, opts) ==
  opts.requireTests /\ Len(w.fixResult.filesModified) > 0

\* fixer.ts:45-53
Verify(w, opts, testsPass) ==
  IF TestsRequired(w, opts) THEN AfterTests(w, testsPass) ELSE w

\* AutoFixer.fix from start to return, for a test run answering testsPass
Fix(files, m, res, opts, io, testsPass) ==
  Verify(FixDependencies(FixImports(World(files, m, NewFixResult, <<>>),
                                    GroupByFile(res.unusedImports, opts), io),
                         res.unusedDependencies, opts, io),
         opts, testsPass)

(***************************************************************************)
(* UnusedImportsDetector.detect over the source files, in traversal order. *)
(***************************************************************************)
RECURSIVE DetectFrom(_, _)
DetectFrom(files, k) ==
  IF k > Len(FileOrder) THEN <<>>
  ELSE findUnusedImports(files[FileOrder[k]], FileOrder[k], TRUE)
         \o DetectFrom(files, k + 1)

detect(files) == DetectFrom(files, 1)

(***************************************************************************)
(* The runs the model explores.                                            *)
(***************************************************************************)
Range(seq) == {seq[k] : k \in 1..Len(seq)}

\* the elements of q whose index is in S, in the order of q, from index k on
RECURSIVE Sub(_, _, _)
Sub(q, S, k) ==
  IF k > Len(q) THEN <<>>
  ELSE (IF k \in S THEN <<q[k]>> ELSE <<>>) \o Sub(q, S, k + 1)

\* the selections of at most n elements of q, in the order of q
Picks(q, n) ==
  {Sub(q, S, 1) : S \in {S \in SUBSET (1..Len(q)) : Cardinality(S) <= n}}

RECURSIVE Reverse(_)
Reverse(q) == IF q = <<>> THEN <<>> ELSE Append(Reverse(Tail(q)), Head(q))

\* a finding the detector scored below the floor
LowConfidence(finding) == [finding EXCEPT !.confidence = 50]

\* a finding whose line number no longer points at its import
Stale(finding) == [finding EXCEPT !.line = @ + 1]

InitialFiles ==
  {[f \in SourceFiles |-> IF f = FileA THEN a ELSE SrcRoundTrip] :
     a \in {SrcThree, SrcQuirks}}

\* the findings the detector made, each of FileB followed by its two variants
RECURSIVE Variants(_)
Variants(found) ==
  IF found = <<>> THEN <<>>
  ELSE (IF Head(found).file = FileB
        THEN <<Head(found), LowConfidence(Head(found)), Stale(Head(found))>>
        ELSE <<Head(found)>>) \o Variants(Tail(found))

ImportFindings(files) == Variants(detect(files))

DepFinding(name, type, confidence) ==
  [name |-> name, version |-> "1.0.0", type |-> type, confidence |-> confidence,
   reason |-> "Not imported in any source file"]

DepFindings ==
  <<DepFinding("lodash", "dependency", 85),
    DepFinding("lodash", "devDependency", 75),
    DepFinding("chalk", "dependency", 85),
    DepFinding("mocha", "dependency", 85)>>

\* the file-system operations a run may see fail: the read of the file
\* fix takes first in the order found, the write of the other one (the
\* reversed order swaps their places), the read and the write of the manifest
IoOperations ==
  {<<"read", FileA>>, <<"write", FileB>>,
   <<"read", packageJsonPath>>, <<"write", packageJsonPath>>}

\* a run meets no failing file-system operation, or one
IoFailures == {{}} \cup {{o} : o \in IoOperations}

VARIABLES
  pc,         \* where AutoFixer.fix stands
  fs,         \* the content of each source file
  manifest,   \* the project manifest on disk
  result,     \* the AnalysisResult handed to fix
  options,    \* the FixerOptions of the constructor
  io,         \* the file-system operations that fail in this run
  fixResult,  \* the FixResult under construction
  byFile,     \* the entries of byFile not processed yet
  log,        \* the calls made on the file system and the collaborators
  fs0,        \* the source files before fix started
  manifest0,  \* the manifest before fix started
  queue,      \* the files a detector's loop has still to take
  allUnusedImports,    \* unused-imports.ts:31
  usedPackages,        \* unused-dependencies.ts:60
  unusedDependencies,  \* unused-dependencies.ts:71
  thrown,     \* the message of the error detect threw, "" when none
  firstRun    \* what the previous run of detect returned

\* the part of the state the detectors own, and the part the fixer owns
detVars == <<queue, allUnusedImports, usedPackages, unusedDependencies, thrown,
             firstRun>>

fixVars == <<options, fixResult, byFile, log, fs0, manifest0>>

vars == <<pc, fs, manifest, result, options, io, fixResult, byFile, log,
          fs0, manifest0, queue, allUnusedImports, usedPackages,
          unusedDependencies, thrown, firstRun>>

NoRun == [done |-> FALSE, findings |-> <<>>]

\* no detector is running
DetectorsIdle ==
  /\ queue = <<>>
  /\ allUnusedImports = <<>>
  /\ usedPackages = {}
  /\ unusedDependencies = <<>>
  /\ thrown = ""
  /\ firstRun = NoRun

Init ==
  /\ pc = "Idle"
  /\ fs \in InitialFiles
  /\ manifest \in Manifests
  /\ \E imports \in Picks(ImportFindings(fs), MaxFindings) :
       \E deps \in Picks(DepFindings, MaxFindings - Len(imports)) :
         \E order \in {"found", "reversed"} :
           result = [unusedImports |-> IF order = "found" THEN imports
                                       ELSE Reverse(imports),
                     unusedDependencies |-> deps]
  /\ options \in [safeMode : BOOLEAN, requireTests : BOOLEAN]
  /\ io \in IoFailures
  /\ fixResult = NewFixResult
  /\ byFile = <<>>
  /\ log = <<>>
  /\ fs0 = fs
  /\ manifest0 = manifest
  /\ DetectorsIdle

Here == World(fs, manifest, fixResult, log)

Becomes(w) ==
  /\ fs' = w.fs
  /\ manifest' = w.manifest
  /\ fixResult' = w.fixResult
  /\ log' = w.log

\* fixer.ts:29-35 and :72-82: a fresh FixResult, the findings grouped by file
BeginFix ==
  /\ pc = "Idle"
  /\ pc' = "ImportsPass"
  /\ byFile' = GroupByFile(result.unusedImports, options)
  /\ Becomes(World(fs, manifest, NewFixResult, <<>>))
  /\ UNCHANGED <<result, options, io, fs0, manifest0>>
  /\ UNCHANGED detVars

\* fixer.ts:85-126, one turn of the loop over byFile
FixImportsInFile ==
  /\ pc = "ImportsPass"
  /\ byFile # <<>>
  /\ Becomes(FixImportsOfFile(Here, Head(byFile), io))
  /\ byFile' = Tail(byFile)
  /\ UNCHANGED <<pc, result, options, io, fs0, manifest0>>
  /\ UNCHANGED detVars

\* fixUnusedImports returns (fixer.ts:39 to :42)
EndImportsPass ==
  /\ pc = "ImportsPass"
  /\ byFile = <<>>
  /\ pc' = "DependenciesPass"
  /\ UNCHANGED <<fs, manifest, result, options, io, fixResult, byFile, log,
                 fs0, manifest0>>
  /\ UNCHANGED detVars

\* fixer.ts:42, fixUnusedDependencies from call to return
FixUnusedDependencies ==
  /\ pc = "DependenciesPass"
  /\ Becomes(FixDependencies(Here, result.unusedDependencies, options, io))
  /\ pc' = "VerifyPass"
  /\ UNCHANGED <<result, options, io, byFile, fs0, manifest0>>
  /\ UNCHANGED detVars

\* fixer.ts:45-53 with the condition true: the tests run, a failure rolls back
RunTests ==
  /\ pc = "VerifyPass"
  /\ TestsRequired(Here, options)
  /\ \E testsPass \in TestVerdicts : Becomes(AfterTests(Here, testsPass))
  /\ pc' = "Returned"
  /\ UNCHANGED <<result, options, io, byFile, fs0, manifest0>>
  /\ UNCHANGED detVars

\* fixer.ts:45 with the condition false, then the return of :61
SkipTests ==
  /\ pc = "VerifyPass"
  /\ ~TestsRequired(Here, options)
  /\ pc' = "Returned"
  /\ UNCHANGED <<fs, manifest, result, options, io, fixResult, byFile, log,
                 fs0, manifest0>>
  /\ UNCHANGED detVars

Next ==
  \/ BeginFix
  \/ FixImportsInFile
  \/ EndImportsPass
  \/ FixUnusedDependencies
  \/ RunTests
  \/ SkipTests

Spec == Init /\ [][Next]_vars

TypeOK ==
  /\ pc \in {"Idle", "ImportsPass", "DependenciesPass", "VerifyPass", "Returned"}
  /\ fixResult.success \in BOOLEAN
  /\ fixResult.importsRemoved \in Nat

(***************************************************************************)
(* UnusedImportsDetector.detect as Analyzer.analyze runs it: the files     *)
(* fast-glob lists are analysed one by one and the findings returned.      *)
(***************************************************************************)
\* the bound of the import detection: lines of the file under study
MaxLines == 4

kwUtils == <<"u","t","i","l","s">>

\* import React from 'react'
ReactImport == ImportDefaultLine(kwReact, <<"r","e","a","c","t">>)

\* import * as utils from './utils'
UtilsImport == ImportNamespaceLine(kwUtils, <<".","/","u","t","i","l","s">>)

\* import { b, c } from 'pb'
NamedImport == ImportNamedLine(<<"b">>, <<"c">>, <<"p","b">>)

\* utils.format();
UtilsCall == kwUtils \o <<".">> \o CallLine(<<"f","o","r","m","a","t">>)

\* <div />;
JsxElement == <<"<","d","i","v"," ","/",">",";">>

\* <></>;
JsxFragment == <<"<",">","<","/",">",";">>

\* the lines a file under study is made of, imports first
LinePool ==
  <<ReactImport, UtilsImport, NamedImport, UtilsCall, UseLine(kwReact),
    UseLine(<<"b">>), JsxElement, JsxFragment, UseLine(kwAwait)>>

\* import React from 'react' / run();
SrcNeighbour == Join(<<ReactImport, CallLine(<<"r","u","n">>)>>)

\* the order in which fast-glob lists the files of the project
DetectOrder == <<FileA, FileB, FileC>>

\* the projects: one of FileA and FileC is under study, the other two
\* files are its neighbours
Projects ==
  {[f \in {FileA, FileB, FileC} |->
      IF f = subject THEN Join(lines)
      ELSE IF f = FileB THEN SrcRoundTrip ELSE SrcNeighbour] :
     subject \in {FileA, FileC}, lines \in Picks(LinePool, MaxLines)}

\* the reads that may fail during a detection: none, or the one of a file
ReadFailures == {{}} \cup {{<<"read", f>>} : f \in {FileA, FileB, FileC}}

NoFindings == [unusedImports |-> <<>>, unusedDependencies |-> <<>>]

\* unused-imports.ts:31 with a detector that keeps its findings
KeptFindings(previous) == previous

\* unused-imports.ts:31: every call of detect starts from an empty array
FreshFindings(previous) == <<>>

\* unused-imports.ts:35-37 with the findings of a file put in front
PushedInFront(all, content, filePath, readable) ==
  findUnusedImports(content, filePath, readable) \o all

\* unused-imports.ts:34-43: one turn of the loop; findUnusedImports turns
\* every failure into no finding, so the catch of :38 has nothing to catch
AnalyzeInto(all, content, filePath, readable) ==
  all \o findUnusedImports(content, filePath, readable)

InitDetect ==
  /\ pc = "Analyze"
  /\ fs \in Projects
  /\ io \in ReadFailures
  /\ manifest = ManifestBare
  /\ result = NoFindings
  /\ options = [safeMode |-> TRUE, requireTests |-> FALSE]
  /\ fixResult = NewFixResult
  /\ byFile = <<>>
  /\ log = <<>>
  /\ fs0 = fs
  /\ manifest0 = manifest
  /\ DetectorsIdle

\* unused-imports.ts:22-31: the files are listed, the findings start empty
ListFiles ==
  /\ pc = "Analyze"
  /\ pc' = "DetectImports"
  /\ queue' = DetectOrder
  /\ allUnusedImports' = FreshFindings(allUnusedImports)
  /\ UNCHANGED <<fs, manifest, result, io, usedPackages, unusedDependencies,
                 thrown, firstRun>>
  /\ UNCHANGED fixVars

\* unused-imports.ts:33-44, one turn of the loop
AnalyzeFile ==
  /\ pc = "DetectImports"
  /\ queue # <<>>
  /\ allUnusedImports' = AnalyzeInto(allUnusedImports, fs[Head(queue)],
                                     Head(queue), CanRead(Head(queue), io))
  /\ queue' = Tail(queue)
  /\ UNCHANGED <<pc, fs, manifest, result, io, usedPackages,
                 unusedDependencies, thrown, firstRun>>
  /\ UNCHANGED fixVars

\* unused-imports.ts:46 and Analyzer.analyze (part_002:43)
ReturnUnusedImports ==
  /\ pc = "DetectImports"
  /\ queue = <<>>
  /\ result' = [result EXCEPT !.unusedImports = allUnusedImports]
  /\ pc' = "ImportsDetected"
  /\ UNCHANGED <<fs, manifest, io, queue, allUnusedImports, usedPackages,
                 unusedDependencies, thrown, firstRun>>
  /\ UNCHANGED fixVars

\* the analysis is run a second time on the same project
AnalyzeAgain ==
  /\ pc = "ImportsDetected"
  /\ ~firstRun.done
  /\ firstRun' = [done |-> TRUE, findings |-> result.unusedImports]
  /\ pc' = "Analyze"
  /\ UNCHANGED <<fs, manifest, result, io, queue, allUnusedImports,
                 usedPackages, unusedDependencies, thrown>>
  /\ UNCHANGED fixVars

NextDetect ==
  \/ ListFiles
  \/ AnalyzeFile
  \/ ReturnUnusedImports
  \/ AnalyzeAgain

SpecDetect == InitDetect /\ [][NextDetect]_vars

(***************************************************************************)
(* UnusedDependenciesDetector: the textual scan for package references.    *)
(***************************************************************************)
\* \s of a regular expression that runs over a whole file
IsWhite(c) == IsSpace(c) \/ c = NL

\* first position >= i of s that holds no character \s matches
RECURSIVE SkipWhite(_, _)
SkipWhite(s, i) ==
  IF i <= Len(s) /\ IsWhite(s[i]) THEN SkipWhite(s, i + 1) ELSE i

\* RegExp.prototype.exec found nothing at a position
NoMatch == [found |-> FALSE, end |-> 0, path |-> <<>>]

\* ['"]([^'"]+)['"] tried at position i: the capture and the position
\* after the match.  The capture runs up to the next quote of either kind
\* and is not empty.
SpecifierAt(s, i) ==
  LET IsQuote(c) == c \in {"'", "\""}
      RECURSIVE QuoteFrom(_)
      QuoteFrom(k) ==
        IF k <= Len(s) /\ ~IsQuote(s[k]) THEN QuoteFrom(k + 1) ELSE k
      Quoted(j) ==
        IF j > i + 1 /\ j <= Len(s)
        THEN [found |-> TRUE, end |-> j + 1, path |-> SubSeq(s, i + 1, j - 1)]
        ELSE NoMatch
  IN IF i <= Len(s) /\ IsQuote(s[i]) THEN Quoted(QuoteFrom(i + 1))
     ELSE NoMatch

kwRequire == <<"r","e","q","u","i","r","e">>

\* /require\s*\(\s*['"]([^'"]+)['"]\s*\)/ (kw = require) and
\* /import\s*\(\s*['"]([^'"]+)['"]\s*\)/ (kw = import) tried at position i
CallAt(s, i, kw) ==
  LET Closed(m, j) ==
        IF m.found /\ j <= Len(s) /\ s[j] = ")" THEN [m EXCEPT !.end = j + 1]
        ELSE NoMatch
      ClosedAfter(m) == Closed(m, SkipWhite(s, m.end))
      Argument(j) ==
        IF j <= Len(s) /\ s[j] = "("
        THEN ClosedAfter(SpecifierAt(s, SkipWhite(s, j + 1)))
        ELSE NoMatch
  IN IF MatchAt(s, i, kw) THEN Argument(SkipWhite(s, i + Len(kw)))
     ELSE NoMatch

\* /import\s+.*?\s+from\s+['"]([^'"]+)['"]/ tried at position i.
\* FromAt: from\s+['"]([^'"]+)['"] with `from` expected at j.
\* LazyFrom: .*?\s+from... once the lazy .*? has reached b; the shortest
\* stretch wins, and `.` matches no line terminator.
\* Es6From: the first \s+ is greedy up to a; when the rest fails from
\* there it gives characters back, which helps only if `from` stands at a.
Es6At(s, i) ==
  LET FromTail(j, q) ==
        IF MatchAt(s, j, kwFrom) /\ q > j + Len(kwFrom) THEN SpecifierAt(s, q)
        ELSE NoMatch
      FromAt(j) == FromTail(j, SkipWhite(s, j + Len(kwFrom)))
      RECURSIVE LazyFrom(_)
      LazyFrom(b) ==
        IF b > Len(s) THEN NoMatch
        ELSE IF IsWhite(s[b]) /\ FromAt(SkipWhite(s, b)).found
        THEN FromAt(SkipWhite(s, b))
        ELSE IF s[b] = NL THEN NoMatch
        ELSE LazyFrom(b + 1)
      Es6From(w, a) ==
        IF a = w THEN NoMatch
        ELSE IF LazyFrom(a).found THEN LazyFrom(a)
        ELSE IF a >= w + 2 THEN FromAt(a)
        ELSE NoMatch
  IN IF MatchAt(s, i, kwImport)
     THEN Es6From(i + Len(kwImport), SkipWhite(s, i + Len(kwImport)))
     ELSE NoMatch

\* one of the three expressions of extractImports tried at position i
RegexAt(s, i, re) ==
  IF re = "es6ImportRegex" THEN Es6At(s, i)
  ELSE IF re = "requireRegex" THEN CallAt(s, i, kwRequire)
  ELSE CallAt(s, i, kwImport)

\* while ((match = regex.exec(content)) !== null) with the g flag: the
\* captures match[1] of all the matches from lastIndex i - 1 on.  NextMatch
\* is the position of the next match, Len(s) + 1 when exec returns null;
\* the search after a match starts where the match ended.
RECURSIVE Captures(_, _, _)
Captures(s, i, re) ==
  LET MatchesAt(k) == k > Len(s) \/ RegexAt(s, k, re).found
      NextMatch ==
        CHOOSE k \in i..(Len(s) + 1) :
          MatchesAt(k) /\ \A j \in i..(k - 1) : ~MatchesAt(j)
      From(k) ==
        IF k > Len(s) THEN {}
        ELSE {RegexAt(s, k, re).path} \cup Captures(s, RegexAt(s, k, re).end, re)
  IN IF i > Len(s) THEN {} ELSE From(NextMatch)

\* importPath.split('/')
RECURSIVE Segments(_)
Segments(s) ==
  LET At(i) ==
        IF i = 0 THEN <<s>>
        ELSE <<SubSeq(s, 1, i - 1)>> \o Segments(SubSeq(s, i + 1, Len(s)))
  IN At(IndexOf(s, <<"/">>))

\* the null extractPackageName returns
NoPackage == <<"null">>

\* extractPackageName with every specifier reduced to its first segment
FirstSegmentOnly(importPath) == Segments(importPath)[1]

extractPackageName(importPath) ==
  LET Scoped(parts) ==
        IF Len(parts) >= 2 THEN parts[1] \o <<"/">> \o parts[2] ELSE parts[1]
  IN IF StartsWith(importPath, <<".">>) \/ StartsWith(importPath, <<"/">>)
     THEN NoPackage
     ELSE IF StartsWith(importPath, <<"@">>) THEN Scoped(Segments(importPath))
     ELSE Segments(importPath)[1]

\* the set usedPackages after extractImports(content, usedPackages);
\* if (packageName) lets neither null nor the empty string in
extractImports(content, used) ==
  LET Captured ==
        Captures(content, 1, "es6ImportRegex")
          \cup Captures(content, 1, "requireRegex")
          \cup Captures(content, 1, "dynamicImportRegex")
      IsTruthy(packageName) == packageName # NoPackage /\ packageName # <<>>
  IN used \cup {n \in {extractPackageName(p) : p \in Captured} : IsTruthy(n)}

\* isPackageUsed without the test for sub-packages
UsedByMembership(packageName, used) == packageName \in used

isPackageUsed(packageName, used) ==
  \/ packageName \in used
  \/ /\ Includes(packageName, <<"/">>)
     /\ \E u \in used :
          StartsWith(u, Segments(packageName)[1] \o <<"/">>)

knownTools ==
  << <<"t","y","p","e","s","c","r","i","p","t">>, <<"e","s","l","i","n","t">>, <<"p","r","e","t","t","i","e","r">>, <<"w","e","b","p","a","c","k">>, <<"v","i","t","e">>, <<"r","o","l","l","u","p">>,
     <<"j","e","s","t">>, <<"v","i","t","e","s","t">>, <<"m","o","c","h","a">>, <<"c","h","a","i">>, <<"@","t","y","p","e","s","/">>, <<"t","s","-","n","o","d","e">>,
     <<"n","o","d","e","m","o","n">>, <<"r","i","m","r","a","f">>, <<"c","r","o","s","s","-","e","n","v">> >>

\* isKnownToolPackage with an empty list of tools
NoKnownTool(name) == FALSE

isKnownToolPackage(name) ==
  \E k \in 1..Len(knownTools) :
    StartsWith(name, knownTools[k]) \/ name = knownTools[k]

(***************************************************************************)
(* UnusedDependenciesDetector.detect as Analyzer.analyze runs it.          *)
(***************************************************************************)
\* the bound of the dependency detection: lines of the source file scanned
MaxRefs == 2

\* the lines of the scanned files, each with the specifiers it holds in one
\* of the three forms the scan looks for
Ref(text, refs) == [text |-> text, refs |-> refs]

RefPool ==
  << Ref(<<"i","m","p","o","r","t"," ","a"," ","f","r","o","m"," ","'","@","b","a","b","e","l","/","p","a","r","s","e","r","'">>, {<<"@","b","a","b","e","l","/","p","a","r","s","e","r">>}),
     Ref(<<"i","m","p","o","r","t"," ","b"," ","f","r","o","m"," ","\"","l","o","d","a","s","h","/","f","p","\"">>, {<<"l","o","d","a","s","h","/","f","p">>}),
     Ref(<<"i","m","p","o","r","t"," ","c"," ","f","r","o","m"," ","'",".","/","l","o","c","a","l","'">>, {<<".","/","l","o","c","a","l">>}),
     Ref(<<"c","o","n","s","t"," ","d"," ","="," ","r","e","q","u","i","r","e","(","'","c","h","a","l","k","'",")">>, {<<"c","h","a","l","k">>}),
     Ref(<<"r","e","q","u","i","r","e"," ","("," ","\"","@","b","a","b","e","l","/","p","a","r","s","e","r","/","l","i","b","\""," ",")">>, {<<"@","b","a","b","e","l","/","p","a","r","s","e","r","/","l","i","b">>}),
     Ref(<<"i","m","p","o","r","t","(","'","/","a","b","s","/","x","'",")">>, {<<"/","a","b","s","/","x">>}),
     Ref(<<"a","w","a","i","t"," ","i","m","p","o","r","t","("," ","'","h","u","s","k","y","'"," ",")">>, {<<"h","u","s","k","y">>}),
     Ref(<<"i","m","p","o","r","t"," ","e"," ","f","r","o","m"," ","'","@","s","o","l","o","'">>, {<<"@","s","o","l","o">>}),
     Ref(<<"i","m","p","o","r","t"," ","f"," ","f","r","o","m"," ","'","l","o","d","a","s","h","-","e","s","'",";"," ","i","m","p","o","r","t"," ","g"," ","f","r","o","m"," ","\"","j","e","s","t","\"">>,
         {<<"l","o","d","a","s","h","-","e","s">>, <<"j","e","s","t">>}),
     \* an import for its side effects is none of the three forms
     Ref(<<"i","m","p","o","r","t"," ","'","e","s","l","i","n","t","'">>, {}) >>

\* the lines vite.config.ts may hold
ConfigPool == <<RefPool[4], RefPool[7]>>

TextsOf(refs) == [k \in 1..Len(refs) |-> refs[k].text]

\* the projects: src/a.ts and vite.config.ts next to package.json
DepProjects ==
  {[f \in {FileA, ConfigFile} |->
      IF f = FileA THEN Join(TextsOf(lines)) ELSE Join(TextsOf(conf))] :
     lines \in Picks(RefPool, MaxRefs), conf \in Picks(ConfigPool, 1)}

\* allFiles (unused-dependencies.ts:57): the source files, then the
\* configuration files of the project root, package.json among them
ScanOrder == <<FileA, ConfigFile, packageJsonPath>>

\* fast-glob promises no order among the configuration files
ScanOrders == {ScanOrder, <<FileA, packageJsonPath, ConfigFile>>}

DepReadFailures == {{}} \cup {{<<"read", f>>} : f \in Range(ScanOrder)}

BabelCore == <<"@","b","a","b","e","l","/","c","o","r","e">>
Lodash == <<"l","o","d","a","s","h">>
Eslint == <<"e","s","l","i","n","t">>
TypesNode == <<"@","t","y","p","e","s","/","n","o","d","e">>
Husky == <<"h","u","s","k","y">>
JestCircus == <<"j","e","s","t","-","c","i","r","c","u","s">>
PeerReact == <<"r","e","a","c","t">>

\* the order of the keys in package.json, which Object.entries follows
DeclaredOrder ==
  <<BabelCore, Lodash, Eslint, TypesNode, Husky, JestCircus, PeerReact>>

Declares(names) == [n \in names |-> "1.0.0"]

ManifestTools ==
  [valid |-> TRUE, layout |-> "authored", name |-> "proj",
   sections |-> {"dependencies", "devDependencies", "peerDependencies"},
   dependencies |-> Declares({BabelCore, Lodash, Eslint}),
   devDependencies |-> Declares({Eslint, TypesNode, Husky, JestCircus}),
   peerDependencies |-> Declares({PeerReact})]

\* a manifest without the key `dependencies`
ManifestDevOnly ==
  [ManifestBare EXCEPT !.sections = {"devDependencies"},
                       !.devDependencies = Declares({BabelCore, Husky})]

\* no package.json in the project root
ManifestAbsent == [ManifestBare EXCEPT !.layout = "absent"]

DepManifests == {ManifestTools, ManifestDevOnly, ManifestBroken, ManifestAbsent}

\* fs.existsSync(packageJsonPath)
existsSync(m) == m.layout # "absent"

\* packageJson.dependencies || {}
Section(m, key) == IF key \in m.sections THEN m[key] ELSE NoEntries

\* the keys of Object.entries(map), in their order
Entries(map) ==
  Sub(DeclaredOrder,
      {k \in 1..Len(DeclaredOrder) : DeclaredOrder[k] \in DOMAIN map}, 1)

\* the text of package.json, which the scan reads like any other file
ManifestText(m) ==
  LET VersionText(v) ==
        IF v = "1.0.0" THEN <<"1",".","0",".","0">> ELSE <<>>
      RECURSIVE EntriesText(_, _)
      EntriesText(map, names) ==
        IF names = <<>> THEN <<>>
        ELSE <<"\"">> \o Head(names) \o <<"\"",":"," ","\"">>
               \o VersionText(map[Head(names)]) \o <<"\"">>
               \o (IF Len(names) > 1 THEN <<",">> ELSE <<>>)
               \o EntriesText(map, Tail(names))
      SectionText(key, title) ==
        IF key \in m.sections
        THEN <<",", NL>> \o <<"\"">> \o title \o <<"\"",":"," ","{">>
               \o EntriesText(m[key], Entries(m[key])) \o <<"}">>
        ELSE <<>>
  IN IF ~m.valid THEN <<"{">>
     ELSE <<"{","\"","n","a","m","e","\"",":"," ","\"","p","r","o","j","\"">>
            \o SectionText("dependencies", <<"d","e","p","e","n","d","e","n","c","i","e","s">>)
            \o SectionText("devDependencies", <<"d","e","v","D","e","p","e","n","d","e","n","c","i","e","s">>)
            \o SectionText("peerDependencies", <<"p","e","e","r","D","e","p","e","n","d","e","n","c","i","e","s">>)
            \o <<NL, "}">>

\* the confidences 0.85 and 0.75, in hundredths
DependencyConfidence == 85
DevDependencyConfidence == 75

\* unused-dependencies.ts:74-84 with the allowlist of the devDependencies loop
AllowlistEverywhere(map, names, used) ==
  LET RECURSIVE Check(_)
      Check(ns) ==
        IF ns = <<>> THEN <<>>
        ELSE (IF /\ ~isKnownToolPackage(Head(ns))
                 /\ ~isPackageUsed(Head(ns), used)
              THEN <<[DepFinding(Head(ns), "dependency", DependencyConfidence)
                        EXCEPT !.version = map[Head(ns)]]>>
              ELSE <<>>) \o Check(Tail(ns))
  IN Check(names)

\* unused-dependencies.ts:87-102 with the confidence of the dependencies loop
DevAsCertain(map, names, used) ==
  LET RECURSIVE Check(_)
      Check(ns) ==
        IF ns = <<>> THEN <<>>
        ELSE (IF /\ ~isKnownToolPackage(Head(ns))
                 /\ ~isPackageUsed(Head(ns), used)
              THEN <<[DepFinding(Head(ns), "devDependency",
                                 DependencyConfidence)
                        EXCEPT !.version = map[Head(ns)]]>>
              ELSE <<>>) \o Check(Tail(ns))
  IN Check(names)

\* unused-dependencies.ts:74-84
RECURSIVE CheckDependencies(_, _, _)
CheckDependencies(map, names, used) ==
  IF names = <<>> THEN <<>>
  ELSE (IF ~isPackageUsed(Head(names), used)
        THEN <<[DepFinding(Head(names), "dependency", DependencyConfidence)
                  EXCEPT !.version = map[Head(names)]]>>
        ELSE <<>>) \o CheckDependencies(map, Tail(names), used)

\* unused-dependencies.ts:87-102
RECURSIVE CheckDevDependencies(_, _, _)
CheckDevDependencies(map, names, used) ==
  IF names = <<>> THEN <<>>
  ELSE (IF ~isKnownToolPackage(Head(names))
           /\ ~isPackageUsed(Head(names), used)
        THEN <<[DepFinding(Head(names), "devDependency",
                           DevDependencyConfidence)
                  EXCEPT !.version = map[Head(names)]]>>
        ELSE <<>>) \o CheckDevDependencies(map, Tail(names), used)

\* unused-dependencies.ts:29-35 with a missing manifest read as an empty one
OpensAnyway(m, readable) == ""

\* unused-dependencies.ts:29-35: the message of the error thrown while the
\* manifest is opened, "" when it opens
OpenError(m, readable) ==
  IF ~existsSync(m) THEN "package.json not found"
  ELSE IF ~readable THEN "EACCES: permission denied"
  ELSE IF ~m.valid THEN "Unexpected end of JSON input"
  ELSE ""

\* the content readFileSync returns for a scanned file
ContentOf(file, files, m) ==
  IF file = packageJsonPath THEN ManifestText(m) ELSE files[file]

\* unused-dependencies.ts:63-68 with a set that is replaced, not added to
ScanKeepingLast(used, content, readable) ==
  IF readable THEN extractImports(content, {}) ELSE used

\* unused-dependencies.ts:63-68: one turn of the loop
Scan(used, content, readable) ==
  IF readable THEN extractImports(content, used) ELSE used

InitDeps ==
  /\ pc = "DetectDependencies"
  /\ fs \in DepProjects
  /\ io \in DepReadFailures
  /\ manifest \in DepManifests
  /\ result = NoFindings
  /\ options = [safeMode |-> TRUE, requireTests |-> FALSE]
  /\ fixResult = NewFixResult
  /\ byFile = <<>>
  /\ log = <<>>
  /\ fs0 = fs
  /\ manifest0 = manifest
  /\ DetectorsIdle

\* unused-dependencies.ts:26-60: the manifest is opened and the files listed
OpenManifest ==
  /\ pc = "DetectDependencies"
  /\ thrown' = OpenError(manifest, CanRead(packageJsonPath, io))
  /\ pc' = IF thrown' = "" THEN "ScanFiles" ELSE "DetectFailed"
  /\ \E order \in ScanOrders :
       queue' = IF thrown' = "" THEN order ELSE <<>>
  /\ usedPackages' = {}
  /\ UNCHANGED <<fs, manifest, result, io, allUnusedImports,
                 unusedDependencies, firstRun>>
  /\ UNCHANGED fixVars

\* unused-dependencies.ts:62-69, one turn of the loop
ScanFile ==
  /\ pc = "ScanFiles"
  /\ queue # <<>>
  /\ usedPackages' = Scan(usedPackages, ContentOf(Head(queue), fs, manifest),
                          CanRead(Head(queue), io))
  /\ queue' = Tail(queue)
  /\ log' = Append(log, Event("read", Head(queue), CanRead(Head(queue), io)))
  /\ UNCHANGED <<pc, fs, manifest, result, io, allUnusedImports,
                 unusedDependencies, thrown, firstRun>>
  /\ UNCHANGED <<options, fixResult, byFile, fs0, manifest0>>

\* unused-dependencies.ts:71-104 and Analyzer.analyze (part_002:49)
ReturnUnusedDependencies ==
  /\ pc = "ScanFiles"
  /\ queue = <<>>
  /\ unusedDependencies' =
       CheckDependencies(Section(manifest, "dependencies"),
                         Entries(Section(manifest, "dependencies")),
                         usedPackages)
       \o CheckDevDependencies(Section(manifest, "devDependencies"),
                               Entries(Section(manifest, "devDependencies")),
                               usedPackages)
  /\ result' = [result EXCEPT !.unusedDependencies = unusedDependencies']
  /\ pc' = "DependenciesDetected"
  /\ UNCHANGED <<fs, manifest, io, queue, allUnusedImports, usedPackages,
                 thrown, firstRun>>
  /\ UNCHANGED fixVars

NextDeps ==
  \/ OpenManifest
  \/ ScanFile
  \/ ReturnUnusedDependencies

SpecDeps == InitDeps /\ [][NextDeps]_vars

(***************************************************************************)
(* The clean command (part_001:118-166): Analyzer.analyze, here with the   *)
(* analysis of imports switched off in the configuration, then             *)
(* AutoFixer.fix on its result, with the options of the command line.      *)
(***************************************************************************)
MaxCleanRefs == 1

\* the projects the command is run on
CleanProjects ==
  {[f \in {FileA, ConfigFile} |->
      IF f = FileA THEN Join(TextsOf(lines)) ELSE Join(TextsOf(conf))] :
     lines \in Picks(RefPool, MaxCleanRefs), conf \in Picks(ConfigPool, 1)}

\* lodash is declared with an empty version string
ManifestLoose == [ManifestTools EXCEPT !.dependencies[Lodash] = ""]

CleanManifests == {ManifestTools, ManifestLoose, ManifestDevOnly}

\* what may fail: the read of the source file, the write of the manifest
CleanFailures ==
  {{}, {<<"read", FileA>>}, {<<"write", packageJsonPath>>}}

InitClean ==
  /\ pc = "DetectDependencies"
  /\ fs \in CleanProjects
  /\ io \in CleanFailures
  /\ manifest \in CleanManifests
  /\ result = NoFindings
  /\ options \in [safeMode : BOOLEAN, requireTests : {FALSE}]
  /\ fixResult = NewFixResult
  /\ byFile = <<>>
  /\ log = <<>>
  /\ fs0 = fs
  /\ manifest0 = manifest
  /\ DetectorsIdle

\* part_001:123-129: nothing was found, the command ends
NothingFound ==
  /\ pc = "DependenciesDetected"
  /\ result.unusedImports = <<>>
  /\ result.unusedDependencies = <<>>
  /\ pc' = "Clean"
  /\ UNCHANGED <<fs, manifest, result, io>>
  /\ UNCHANGED fixVars
  /\ UNCHANGED detVars

\* part_001:158-166: AutoFixer.fix on the result of the analysis
FixFound ==
  /\ pc = "DependenciesDetected"
  /\ ~(result.unusedImports = <<>> /\ result.unusedDependencies = <<>>)
  /\ \E testsPass \in TestVerdicts :
       Becomes(Fix(fs, manifest, result, options, io, testsPass))
  /\ pc' = "Returned"
  /\ UNCHANGED <<result, options, io, byFile, fs0, manifest0>>
  /\ UNCHANGED detVars

NextClean ==
  \/ OpenManifest
  \/ ScanFile
  \/ ReturnUnusedDependencies
  \/ NothingFound
  \/ FixFound

SpecClean == InitClean /\ [][NextClean]_vars

(***************************************************************************)
(* Vocabulary of the properties.                                           *)
(***************************************************************************)
Returned == pc = "Returned"

\* the ImportsPass is over
ImportsDone == pc \in {"DependenciesPass", "VerifyPass", "Returned"}

\* the DependenciesPass is over
DependenciesDone == pc \in {"VerifyPass", "Returned"}

\* the events of the log with operation op
Calls(op) == {k \in 1..Len(log) : log[k].op = op}

\* the paths a write of this run reached the disk for
Written == {log[k].path : k \in {k \in Calls("write") : log[k].ok}}

\* the paths this run called writeFileSync on
WriteAttempted == {log[k].path : k \in Calls("write")}

\* the test run of this invocation reported failure
TestsFailed == \E k \in Calls("runTests") : ~log[k].ok

\* what a path holds now, and what it held when fix started
ContentNow(path) == IF path = packageJsonPath THEN manifest ELSE fs[path]
ContentBefore(path) == IF path = packageJsonPath THEN manifest0 ELSE fs0[path]

\* the entries of byFile as fix built them
Grouped == GroupByFile(result.unusedImports, options)

AtOrAboveFloor(finding) == finding.confidence >= SafeModeFloor

WithoutLowConfidence(res) ==
  [unusedImports |-> SelectSeq(res.unusedImports, AtOrAboveFloor),
   unusedDependencies |-> SelectSeq(res.unusedDependencies, AtOrAboveFloor)]

C2_SafeModeFloor ==
  (Returned /\ options.safeMode)
  => Here = Fix(fs0, manifest0, WithoutLowConfidence(result), options, io,
                ~TestsFailed)

\* a run in safe mode whose findings hold an import below the floor that
\* would edit its line, and a dependency below the floor that is declared
C2_Witness ==
  /\ Returned
  /\ options.safeMode
  /\ \E imp \in Range(result.unusedImports) :
       /\ imp.confidence < SafeModeFloor
       /\ EditLines(Split(fs0[imp.file]), <<imp>>).modified
  /\ \E dep \in Range(result.unusedDependencies) :
       /\ dep.confidence < SafeModeFloor
       /\ dep.type = "devDependency"
       /\ manifest0.valid
       /\ Truthy(manifest0.devDependencies, dep.name)

(***************************************************************************)
(* C3  Descending-line mutation order: when the findings of one file sit   *)
(* on distinct lines and each is removed as a whole line, the lines        *)
(* deleted are the lines that stood at the findings' original 1-based line *)
(* numbers; every other line keeps its content and its relative order.     *)
(***************************************************************************)
\* lines without the ones whose 1-based number is in gone, from number k on
RECURSIVE KeepFrom(_, _, _)
KeepFrom(lines, gone, k) ==
  IF k > Len(lines) THEN <<>>
  ELSE (IF k \in gone THEN <<>> ELSE <<lines[k]>>) \o KeepFrom(lines, gone, k + 1)

\* the finding names a line of `lines` that holds its import and nothing else
WholeLine(lines, imp) ==
  /\ imp.line \in 1..Len(lines)
  /\ Includes(lines[imp.line], imp.importName)
  /\ Includes(lines[imp.line], imp.source)
  /\ isOnlyImportOnLine(lines[imp.line], imp.importName)

DistinctLines(imports) ==
  \A i, j \in 1..Len(imports) : i # j => imports[i].line # imports[j].line

\* the entry of byFile is one C3 speaks of, and its file was read and written
C3_Case(entry) ==
  /\ CanRead(entry.filePath, io)
  /\ CanWrite(entry.filePath, io)
  /\ DistinctLines(entry.imports)
  /\ \A k \in 1..Len(entry.imports) :
       WholeLine(Split(fs0[entry.filePath]), entry.imports[k])

C3_DescendingLineOrder ==
  pc = "DependenciesPass" =>
    \A k \in 1..Len(Grouped) :
      C3_Case(Grouped[k]) =>
        Split(fs[Grouped[k].filePath]) =
          KeepFrom(Split(fs0[Grouped[k].filePath]),
                   {imp.line : imp \in Range(Grouped[k].imports)}, 1)

\* two whole-line findings of one file, handed over in ascending line order
C3_Witness ==
  /\ pc = "DependenciesPass"
  /\ \E k \in 1..Len(Grouped) :
       /\ C3_Case(Grouped[k])
       /\ Len(Grouped[k].imports) = 2
       /\ Grouped[k].imports[1].line < Grouped[k].imports[2].line

(***************************************************************************)
(* C4  Import-fix round trip: for a file whose only import is              *)
(* `import unused from 'pkg'`, with `unused` never referenced, the step    *)
(* that applies the detector's finding removes the whole line, adds        *)
(* exactly 1 to importsRemoved, and detection on the fixed file finds      *)
(* nothing.                                                                *)
(***************************************************************************)
TheUnusedImport == ImportDefaultLine(<<"u","n","u","s","e","d">>, <<"p","k","g">>)

\* `content` has one import, `import unused from 'pkg'`, on line n, and
\* never refers to `unused`
NeverRefersToUnused(analysis) ==
  /\ analysis.ok
  /\ Len(analysis.imports) = 1
  /\ <<"u","n","u","s","e","d">> \notin analysis.usedIdentifiers

OnlyImportIsUnused(content, filePath, n) ==
  /\ n \in 1..Len(Split(content))
  /\ Split(content)[n] = TheUnusedImport
  /\ NeverRefersToUnused(parseCode(content, filePath))

\* the entry of byFile holds what the detector found in such a file, and the
\* file can be read and written
C4_Case(entry, n) ==
  /\ OnlyImportIsUnused(fs[entry.filePath], entry.filePath, n)
  /\ entry.imports = findUnusedImports(fs[entry.filePath], entry.filePath, TRUE)
  /\ CanRead(entry.filePath, io)
  /\ CanWrite(entry.filePath, io)

C4_RoundTripStep ==
  \A n \in 1..2 :
    (pc = "ImportsPass" /\ byFile # <<>> /\ C4_Case(Head(byFile), n))
    => /\ Split(fs'[Head(byFile).filePath])
            = KeepFrom(Split(fs[Head(byFile).filePath]), {n}, 1)
       /\ fixResult'.importsRemoved = fixResult.importsRemoved + 1
       /\ findUnusedImports(fs'[Head(byFile).filePath], Head(byFile).filePath,
                            TRUE) = <<>>

C4_ImportFixRoundTrip == [][C4_RoundTripStep]_vars

\* the pass has fixed such a file
C4_Witness ==
  /\ pc = "DependenciesPass"
  /\ \E k \in 1..Len(Grouped) :
       /\ OnlyImportIsUnused(fs0[Grouped[k].filePath], Grouped[k].filePath, 1)
       /\ Grouped[k].imports
            = findUnusedImports(fs0[Grouped[k].filePath], Grouped[k].filePath, TRUE)
       /\ Grouped[k].filePath \in Written
       /\ fixResult.importsRemoved = 1

ImportsPassCalls ==
  {k \in Calls("read") \cup Calls("write") : log[k].path \in SourceFiles}

DependenciesPassCalls ==
  {k \in Calls("read") \cup Calls("write") : log[k].path = packageJsonPath}

VerifyPassCalls == Calls("runTests") \cup Calls("rollback")

PassesInOrder ==
  /\ \A i \in ImportsPassCalls : \A d \in DependenciesPassCalls : i < d
  /\ \A d \in ImportsPassCalls \cup DependenciesPassCalls :
       \A v \in VerifyPassCalls : d < v

Committed ==
  /\ fixResult.success
  /\ \A path \in Written : ContentNow(path) # ContentBefore(path)

RolledBack ==
  /\ ~fixResult.success
  /\ fs = fs0
  /\ manifest = manifest0

FailedOn(filePath) ==
  \E k \in ImportsPassCalls : log[k].path = filePath /\ ~log[k].ok

\* the files and the list of modified files are those of w, the failing
\* file left aside
SameAsWithout(filePath, w) ==
  /\ \A other \in SourceFiles \ {filePath} : fs[other] = w.fs[other]
  /\ fixResult.filesModified = w.fixResult.filesModified

ImportsPassWithout(k) ==
  FixImports(World(fs0, manifest0, NewFixResult, <<>>),
             Sub(Grouped, (1..Len(Grouped)) \ {k}, 1), io)

C7_MutationFailureIsolation ==
  /\ pc = "DependenciesPass" =>
       \A k \in 1..Len(Grouped) :
         FailedOn(Grouped[k].filePath) =>
           /\ ImportError(Grouped[k].filePath) \in Range(fixResult.errors)
           /\ SameAsWithout(Grouped[k].filePath, ImportsPassWithout(k))
  /\ (DependenciesDone /\ \E f \in SourceFiles : FailedOn(f))
       => DependenciesPassCalls # {}

\* the first file failed, the second was edited and written, and the
\* manifest was read
C7_Witness ==
  /\ Returned
  /\ Len(Grouped) = 2
  /\ FailedOn(Grouped[1].filePath)
  /\ Grouped[2].filePath \in Written
  /\ DependenciesPassCalls # {}

LinesChanged(filePath) ==
  \E k \in 1..Len(Grouped) :
    /\ Grouped[k].filePath = filePath
    /\ CanRead(filePath, io)
    /\ EditLines(Split(fs0[filePath]), Grouped[k].imports).lines
         # Split(fs0[filePath])

\* C9 as stated: in the ImportsPass a source file is written to disk if
\* and only if an edit changed its array of lines, and its path is in
\* filesModified if and only if it was written.
WrittenIffChanged(f, changed) ==
  /\ f \in Written <=> changed
  /\ f \in Range(fixResult.filesModified) <=> f \in Written

C9_WriteOnlyIfChanged ==
  pc = "DependenciesPass" =>
    \A f \in SourceFiles : WrittenIffChanged(f, LinesChanged(f))

\* C9 amended: in the ImportsPass the write of a source file is attempted
\* if and only if an edit changed its array of lines, it reaches the disk
\* unless the write fails, and the path is in filesModified if and only if
\* the write succeeded; a file whose findings all fail to match is neither
\* written nor listed.
AttemptedIffChanged(f, changed) ==
  /\ f \in WriteAttempted <=> changed
  /\ f \in Written <=> (changed /\ CanWrite(f, io))
  /\ f \in Range(fixResult.filesModified) <=> f \in Written
  /\ f \notin Written => fs[f] = fs0[f]

C9_WriteAttemptedIffChanged ==
  pc = "DependenciesPass" =>
    \A f \in SourceFiles : AttemptedIffChanged(f, LinesChanged(f))

\* one file was changed and written, the other had a finding that matched
\* nothing and was left alone
C9_Witness ==
  /\ pc = "DependenciesPass"
  /\ Len(Grouped) = 2
  /\ \E f, g \in SourceFiles :
       /\ f \in Written
       /\ LinesChanged(f)
       /\ g \notin WriteAttempted
       /\ ~FailedOn(g)
       /\ ~LinesChanged(g)

(***************************************************************************)
(* C10  Manifest single write.                                             *)
(***************************************************************************)
ManifestReads == {k \in Calls("read") : log[k].path = packageJsonPath}

ManifestWrites == {k \in Calls("write") : log[k].path = packageJsonPath}

\* the deletions the DependenciesPass makes in memory
Deletions ==
  IF CanRead(packageJsonPath, io) /\ manifest0.valid
  THEN RemoveAll([doc |-> manifest0, modified |-> FALSE, removed |-> <<>>],
                 result.unusedDependencies, options)
  ELSE [doc |-> manifest0, modified |-> FALSE, removed |-> <<>>]

\* the names of the entries the manifest on disk has lost
LostOnDisk ==
  (DOMAIN manifest0.dependencies \ DOMAIN manifest.dependencies)
    \cup (DOMAIN manifest0.devDependencies \ DOMAIN manifest.devDependencies)

\* C10 as stated: the manifest is read once and written at most once, it
\* is written if and only if an entry was deleted, and when it is written
\* dependenciesRemoved lists the deleted names and filesModified holds the
\* manifest path.
C10_ManifestSingleWrite ==
  DependenciesDone =>
    /\ Cardinality(ManifestReads) = 1
    /\ Cardinality(ManifestWrites) <= 1
    /\ packageJsonPath \in Written <=> Deletions.modified
    /\ packageJsonPath \in Written =>
         /\ Range(fixResult.dependenciesRemoved) = LostOnDisk
         /\ packageJsonPath \in Range(fixResult.filesModified)

\* C10 amended: the manifest is read once and its write is attempted at
\* most once, if and only if an entry was deleted in memory; it reaches the
\* disk unless the write fails, and when it does dependenciesRemoved lists
\* the deleted names and filesModified holds the manifest path.
C10_ManifestWriteAttemptedOnce ==
  DependenciesDone =>
    /\ Cardinality(ManifestReads) = 1
    /\ Cardinality(ManifestWrites) <= 1
    /\ ManifestWrites # {} <=> Deletions.modified
    /\ packageJsonPath \in Written
         <=> (Deletions.modified /\ CanWrite(packageJsonPath, io))
    /\ packageJsonPath \in Written =>
         /\ fixResult.dependenciesRemoved = Deletions.removed
         /\ Range(fixResult.dependenciesRemoved) = LostOnDisk
         /\ manifest.peerDependencies = manifest0.peerDependencies
         /\ packageJsonPath \in Range(fixResult.filesModified)
    /\ packageJsonPath \notin Written =>
         /\ manifest = manifest0
         /\ packageJsonPath \notin Range(fixResult.filesModified)

\* a dependency and a devDependency were deleted and the manifest written
C10_Witness ==
  /\ DependenciesDone
  /\ packageJsonPath \in Written
  /\ Len(fixResult.dependenciesRemoved) = 2
  /\ manifest.dependencies # manifest0.dependencies
  /\ manifest.devDependencies # manifest0.devDependencies

(***************************************************************************)
(* Vocabulary of the properties of the import detection.                   *)
(***************************************************************************)
ImportsDetected == pc = "ImportsDetected"

\* the findings returned for the file f, in the order returned
RECURSIVE OfFile(_, _)
OfFile(found, f) ==
  IF found = <<>> THEN <<>>
  ELSE (IF Head(found).file = f THEN <<Head(found)>> ELSE <<>>)
         \o OfFile(Tail(found), f)

FindingsOf(f) == OfFile(result.unusedImports, f)

LinesOf(f) == Range(Split(fs[f]))

\* the file f was read and parsed
Analysed(f) == CanRead(f, io) /\ parseCode(fs[f], f).ok

\* the finding reports the import entry imp
Reports(finding, imp) ==
  /\ finding.importName = imp.name
  /\ finding.source = imp.source
  /\ finding.line = imp.line
  /\ finding.column = imp.column

Flagged(f, name) ==
  \E k \in 1..Len(FindingsOf(f)) : FindingsOf(f)[k].importName = name

(***************************************************************************)
(* C11  Resolver precedence: an import entry of a file's model is reported *)
(* unused, with confidence 0.95, if and only if (1) its local name is not  *)
(* in usedIdentifiers, (2) it is not `React` in a file with JSX, and (3)   *)
(* it is not a namespace import of which some used identifier starts with  *)
(* `<localName>.`; one finding per unused entry, none per used entry.      *)
(***************************************************************************)
UsedByFirst(imp, analysis) == imp.name \in analysis.usedIdentifiers

UsedBySecond(imp, analysis) == imp.name = kwReact /\ analysis.hasJSX

UsedByThird(imp, analysis) ==
  /\ imp.isNamespace
  /\ \E id \in analysis.usedIdentifiers :
       /\ Len(id) > Len(imp.name)
       /\ SubSeq(id, 1, Len(imp.name) + 1) = Append(imp.name, ".")

UsedByPrecedence(imp, analysis) ==
  \/ UsedByFirst(imp, analysis)
  \/ UsedBySecond(imp, analysis)
  \/ UsedByThird(imp, analysis)

UnusedEntries(analysis) ==
  {k \in 1..Len(analysis.imports) :
     ~UsedByPrecedence(analysis.imports[k], analysis)}

PrecedenceHolds(found, analysis) ==
  /\ Len(found) = Cardinality(UnusedEntries(analysis))
  /\ \A k \in 1..Len(analysis.imports) :
       (\E j \in 1..Len(found) : Reports(found[j], analysis.imports[k]))
         <=> k \in UnusedEntries(analysis)
  /\ \A j \in 1..Len(found) : found[j].confidence = 95

C11_ResolverPrecedence ==
  ImportsDetected =>
    \A f \in DOMAIN fs :
      Analysed(f) => PrecedenceHolds(FindingsOf(f), parseCode(fs[f], f))

\* a file with an entry used by its name, one used as the JSX runtime
\* binding only, and one unused
ThreeKinds(analysis) ==
  /\ \E k \in 1..Len(analysis.imports) :
       UsedByFirst(analysis.imports[k], analysis)
  /\ \E k \in 1..Len(analysis.imports) :
       /\ UsedBySecond(analysis.imports[k], analysis)
       /\ ~UsedByFirst(analysis.imports[k], analysis)
  /\ UnusedEntries(analysis) # {}

C11_Witness ==
  /\ ImportsDetected
  /\ \E f \in DOMAIN fs : Analysed(f) /\ ThreeKinds(parseCode(fs[f], f))

(***************************************************************************)
(* C12  JSX exception: a file with `import React from 'react'` and a JSX   *)
(* element or fragment, where React is never referenced, yields no finding *)
(* for React; the same import in a file (read and parsed) with no JSX and  *)
(* no reference is flagged.                                                *)
(***************************************************************************)
HasJsxLine(f) == JsxElement \in LinesOf(f) \/ JsxFragment \in LinesOf(f)

C12_JsxException ==
  ImportsDetected =>
    \A f \in DOMAIN fs :
      (ReactImport \in LinesOf(f) /\ UseLine(kwReact) \notin LinesOf(f))
      => /\ HasJsxLine(f) => ~Flagged(f, kwReact)
         /\ (~HasJsxLine(f) /\ Analysed(f)) => Flagged(f, kwReact)

\* a parsed .tsx file where only the fragment keeps React, next to a file
\* without JSX where React is flagged
C12_Witness ==
  /\ ImportsDetected
  /\ Analysed(FileC)
  /\ ReactImport \in LinesOf(FileC)
  /\ JsxFragment \in LinesOf(FileC)
  /\ JsxElement \notin LinesOf(FileC)
  /\ UseLine(kwReact) \notin LinesOf(FileC)
  /\ ~Flagged(FileC, kwReact)
  /\ Flagged(FileA, kwReact)

(***************************************************************************)
(* C13  Namespace exception: `import * as utils from './utils'` is not     *)
(* flagged when the file holds the member access `utils.format()`, and is  *)
(* flagged when the file (read and parsed) never refers to utils.          *)
(***************************************************************************)
C13_NamespaceException ==
  ImportsDetected =>
    \A f \in DOMAIN fs :
      UtilsImport \in LinesOf(f)
      => /\ UtilsCall \in LinesOf(f) => ~Flagged(f, kwUtils)
         /\ (UtilsCall \notin LinesOf(f) /\ Analysed(f)) => Flagged(f, kwUtils)

\* a parsed file with the member access, where utils is kept
C13_Witness ==
  /\ ImportsDetected
  /\ \E f \in DOMAIN fs :
       /\ Analysed(f)
       /\ UtilsImport \in LinesOf(f)
       /\ UtilsCall \in LinesOf(f)
       /\ FindingsOf(f) # <<>>
       /\ ~Flagged(f, kwUtils)

PlaceOf(f) == CHOOSE k \in 1..Len(DetectOrder) : DetectOrder[k] = f

Before(a, b) ==
  \/ PlaceOf(a.file) < PlaceOf(b.file)
  \/ /\ a.file = b.file
     /\ \/ a.line < b.line
        \/ a.line = b.line /\ a.column < b.column

InOrder(found) ==
  \A i, j \in 1..Len(found) : i < j => Before(found[i], found[j])

C19_OutputOrdering ==
  ImportsDetected =>
    /\ InOrder(result.unusedImports)
    /\ \A f \in DOMAIN fs :
         Len(FindingsOf(f)) = Len(findUnusedImports(fs[f], f, CanRead(f, io)))

\* `react` is reported for two files, and the file in the middle of the
\* traversal has a finding too
C19_Witness ==
  /\ ImportsDetected
  /\ Flagged(FileA, kwReact)
  /\ Flagged(FileB, <<"u","n","u","s","e","d">>)
  /\ Flagged(FileC, kwReact)
  /\ Len(FindingsOf(FileC)) >= 3

(***************************************************************************)
(* Vocabulary of the properties of the dependency detection.               *)
(***************************************************************************)
\* detect has returned its findings to Analyzer.analyze
DependenciesDetected == pc = "DependenciesDetected"

\* the findings hold an entry of this name and kind
FlaggedAs(name, type) ==
  \E k \in 1..Len(result.unusedDependencies) :
    /\ result.unusedDependencies[k].name = name
    /\ result.unusedDependencies[k].type = type

Declared(key) == DOMAIN Section(manifest, key)

\* the specifiers written on a line, and in a file, in one of the three
\* forms the scan looks for
RefsOfLine(line) ==
  UNION {RefPool[k].refs : k \in {j \in 1..Len(RefPool) : RefPool[j].text = line}}

RefsOfLines(lines) == UNION {RefsOfLine(lines[k]) : k \in 1..Len(lines)}

RefsIn(file) == RefsOfLines(Split(ContentOf(file, fs, manifest)))

\* the read of the file fails in this run
ReadFails(file) == <<"read", file>> \in io

\* the specifiers of the scanned files whose read succeeds
SpecifiersRead ==
  UNION {RefsIn(f) : f \in {g \in Range(ScanOrder) : ~ReadFails(g)}}

\* the name starts with the prefix
HasPrefix(name, prefix) ==
  Len(name) >= Len(prefix) /\ SubSeq(name, 1, Len(prefix)) = prefix

(***************************************************************************)
(* C14  Package usage test.  When detect returns, a declared package that  *)
(* is subject to the usage test (every entry of dependencies, every entry  *)
(* of devDependencies that is no known tool) is left out of the findings   *)
(* if and only if its name is a member of the used-package set, or holds a *)
(* '/' and some used package starts with its '<scope>/' prefix; so         *)
(* @babel/core is not flagged when only @babel/parser is imported, and an  *)
(* unscoped name is used by direct membership only.                        *)
(***************************************************************************)
\* the part of a name up to and including its first '/'
ScopePrefix(name) ==
  SubSeq(name, 1, CHOOSE k \in 1..Len(name) :
                    name[k] = "/" /\ \A j \in 1..(k - 1) : name[j] # "/")

IsScoped(name) == \E k \in 1..Len(name) : name[k] = "/"

TreatedAsUsed(name, used) ==
  \/ name \in used
  \/ /\ IsScoped(name)
     /\ \E u \in used : HasPrefix(u, ScopePrefix(name))

C14_PackageUsageTest ==
  DependenciesDetected =>
    /\ \A n \in Declared("dependencies") :
         FlaggedAs(n, "dependency") <=> ~TreatedAsUsed(n, usedPackages)
    /\ \A n \in Declared("devDependencies") :
         ~isKnownToolPackage(n) =>
           (FlaggedAs(n, "devDependency") <=> ~TreatedAsUsed(n, usedPackages))

\* @babel/core is declared and only @babel/parser is imported: not flagged;
\* lodash is declared and only lodash-es is imported: flagged
C14_Witness ==
  /\ DependenciesDetected
  /\ manifest = ManifestTools
  /\ <<"@","b","a","b","e","l","/","p","a","r","s","e","r">> \in usedPackages
  /\ BabelCore \notin usedPackages
  /\ ~FlaggedAs(BabelCore, "dependency")
  /\ <<"l","o","d","a","s","h","-","e","s">> \in usedPackages
  /\ Lodash \notin usedPackages
  /\ FlaggedAs(Lodash, "dependency")

(***************************************************************************)
(* C15  Known-tool allowlist.  Whatever the used-package set is, the empty *)
(* one included, a devDependency whose name equals or starts with one of   *)
(* the known tool names is never reported as an unused devDependency, and  *)
(* when no entry of dependencies bears its name it is in no finding at     *)
(* all.                                                                    *)
(***************************************************************************)
NamedLikeTool(name) ==
  \E k \in 1..Len(knownTools) : HasPrefix(name, knownTools[k])

InFindings(name) ==
  \E k \in 1..Len(result.unusedDependencies) :
    result.unusedDependencies[k].name = name

C15_KnownToolAllowlist ==
  \A n \in Declared("devDependencies") :
    NamedLikeTool(n) =>
      /\ ~FlaggedAs(n, "devDependency")
      /\ n \notin Declared("dependencies") => ~InFindings(n)

\* nothing is imported anywhere: husky is reported, eslint, @types/node and
\* jest-circus are not
C15_Witness ==
  /\ DependenciesDetected
  /\ manifest = ManifestTools
  /\ usedPackages = {}
  /\ FlaggedAs(Husky, "devDependency")
  /\ ~FlaggedAs(Eslint, "devDependency")
  /\ ~InFindings(TypesNode)
  /\ ~InFindings(JestCircus)

(***************************************************************************)
(* C17  ManifestMissing.  When package.json does not exist detect throws   *)
(* as soon as it has started and no finding is ever returned; when the     *)
(* manifest opens, a failed read of a scanned file throws nothing, detect  *)
(* returns, and the used-package set is the one the files that could be    *)
(* read give.                                                              *)
(***************************************************************************)
ManifestOpens ==
  existsSync(manifest) /\ ~ReadFails(packageJsonPath) /\ manifest.valid

UsedByReadableFiles ==
  UNION {extractImports(ContentOf(f, fs, manifest), {}) :
           f \in {g \in Range(ScanOrder) : ~ReadFails(g)}}

C17_ManifestMissing ==
  /\ (~existsSync(manifest) /\ pc # "DetectDependencies") =>
       /\ pc = "DetectFailed"
       /\ thrown # ""
       /\ result.unusedDependencies = <<>>
  /\ ManifestOpens =>
       /\ thrown = ""
       /\ pc # "DetectFailed"
       /\ DependenciesDetected => usedPackages = UsedByReadableFiles

\* the read of src/a.ts fails: its import of lodash does not count, the
\* import of husky in vite.config.ts does, and detect returns
C17_Witness ==
  /\ DependenciesDetected
  /\ io = {<<"read", FileA>>}
  /\ <<"l","o","d","a","s","h","/","f","p">> \in RefsIn(FileA)
  /\ manifest = ManifestTools
  /\ FlaggedAs(Lodash, "dependency")
  /\ ~FlaggedAs(Husky, "devDependency")
  /\ thrown = ""

(***************************************************************************)
(* C20  Specifier-to-package-name reduction.  During the scan the          *)
(* used-package set holds nothing but reductions of specifiers read, and   *)
(* after it exactly these: a specifier that starts with '.' or '/' gives   *)
(* nothing; one that starts with '@' gives what stands before its second   *)
(* '/' (all of it when it has no second '/'); any other gives what stands  *)
(* before its first '/'.                                                   *)
(***************************************************************************)
Contributes(p) == p[1] \notin {".", "/"}

Slashes(p) == {k \in 1..Len(p) : p[k] = "/"}

\* p up to its n-th '/', all of p when it has fewer
BeforeSlash(p, n) ==
  IF Cardinality(Slashes(p)) < n THEN p
  ELSE SubSeq(p, 1, (CHOOSE k \in Slashes(p) :
                       Cardinality({j \in Slashes(p) : j <= k}) = n) - 1)

Reduction(p) == IF p[1] = "@" THEN BeforeSlash(p, 2) ELSE BeforeSlash(p, 1)

Reductions(specifiers) ==
  {Reduction(p) : p \in {q \in specifiers : Contributes(q)}}

C20_SpecifierReduction ==
  /\ usedPackages \subseteq Reductions(SpecifiersRead)
  /\ DependenciesDetected => usedPackages = Reductions(SpecifiersRead)

\* a relative, a scoped and a plain specifier were read
C20_Witness ==
  /\ DependenciesDetected
  /\ RefsIn(FileA) = {<<".","/","l","o","c","a","l">>, <<"@","b","a","b","e","l","/","p","a","r","s","e","r","/","l","i","b">>}
  /\ RefsIn(ConfigFile) = {<<"h","u","s","k","y">>}
  /\ io = {}
  /\ usedPackages = {<<"@","b","a","b","e","l","/","p","a","r","s","e","r">>, <<"h","u","s","k","y">>}


(***************************************************************************)
(* C21  Confidence by kind.  Every finding of kind dependency carries the  *)
(* confidence 0.85, every finding of kind devDependency carries 0.75,      *)
(* which is strictly lower, and every confidence lies in [0,1] (here in    *)
(* hundredths, 0..100).                                                    *)
(***************************************************************************)
DepFindingsNow == Range(result.unusedDependencies) \cup Range(unusedDependencies)

C21_ConfidenceByKind ==
  /\ DevDependencyConfidence < DependencyConfidence
  /\ \A f \in DepFindingsNow :
       /\ f.confidence \in 0..100
       /\ f.type = "dependency" => f.confidence = 85
       /\ f.type = "devDependency" => f.confidence = 75

\* detect has returned findings of both kinds
C21_Witness ==
  /\ DependenciesDetected
  /\ \E f, g \in Range(result.unusedDependencies) :
       /\ f.type = "dependency" /\ f.confidence = 85
       /\ g.type = "devDependency" /\ g.confidence = 75

(***************************************************************************)
(* C30  Peer dependencies and the scope of the allowlist.  No finding has  *)
(* the kind peerDependency; a finding of kind dependency names a package   *)
(* declared under dependencies, one of kind devDependency a package        *)
(* declared under devDependencies, so a package declared only under        *)
(* peerDependencies is never reported; and a package declared under        *)
(* dependencies that no scanned file references is flagged as dependency   *)
(* even when it is named like an allowlisted tool.                         *)
(***************************************************************************)
DeclaredOnlyAsPeer ==
  Declared("peerDependencies")
    \ (Declared("dependencies") \cup Declared("devDependencies"))

C30_PeersAndAllowlistScope ==
  /\ \A f \in DepFindingsNow :
       /\ f.type \in {"dependency", "devDependency"}
       /\ f.type = "dependency" => f.name \in Declared("dependencies")
       /\ f.type = "devDependency" => f.name \in Declared("devDependencies")
       /\ f.name \notin DeclaredOnlyAsPeer
  /\ DependenciesDetected =>
       \A n \in Declared("dependencies") :
         (NamedLikeTool(n) /\ ~TreatedAsUsed(n, usedPackages))
           => FlaggedAs(n, "dependency")

\* eslint is declared under dependencies, nothing refers to it and it is
\* flagged, while the peer dependency, equally unreferenced, is not
C30_Witness ==
  /\ DependenciesDetected
  /\ Eslint \in Declared("dependencies")
  /\ NamedLikeTool(Eslint)
  /\ FlaggedAs(Eslint, "dependency")
  /\ PeerReact \in DeclaredOnlyAsPeer
  /\ ~TreatedAsUsed(PeerReact, usedPackages)
  /\ ~InFindings(PeerReact)


(***************************************************************************)
(* C24  Scan-order independence.  Whatever the order in which the scanned  *)
(* files are read, the used-package set is at every moment the union of    *)
(* the package names extracted from each file read so far, each taken on   *)
(* its own, and when detect returns the findings are the ones computed     *)
(* from the union over all the scanned files: no order changes them.       *)
(***************************************************************************)
\* the package names one file contributes on its own
ExtractedAlone(file) ==
  IF ReadFails(file) THEN {}
  ELSE extractImports(ContentOf(file, fs, manifest), {})

MergeAfterMap(files) == UNION {ExtractedAlone(f) : f \in files}

\* the files the scan has been through, in the order it took them
ScannedInOrder == [k \in 1..Len(log) |-> log[k].path]

\* unused-dependencies.ts:71-102 applied to a used-package set
FindingsFrom(used) ==
  CheckDependencies(Section(manifest, "dependencies"),
                    Entries(Section(manifest, "dependencies")), used)
  \o CheckDevDependencies(Section(manifest, "devDependencies"),
                          Entries(Section(manifest, "devDependencies")), used)

\* a turn of the loop adds what the file brings on its own, nothing else
AddsItsOwn ==
  (pc = "ScanFiles" /\ queue # <<>>) =>
    usedPackages' = usedPackages \cup ExtractedAlone(Head(queue))

\* at the return the set is the merge of the per-file sets
MergedAtReturn ==
  DependenciesDetected =>
    /\ ScannedInOrder \in ScanOrders
    /\ usedPackages = MergeAfterMap(Range(ScanOrder))
    /\ result.unusedDependencies = FindingsFrom(usedPackages)

C24_ScanOrderIndependence == [][AddsItsOwn]_vars /\ []MergedAtReturn

\* the manifest was read before the configuration file, and the source
\* file and the configuration file each brought a package of their own
C24_Witness ==
  /\ DependenciesDetected
  /\ ScannedInOrder = <<FileA, packageJsonPath, ConfigFile>>
  /\ ExtractedAlone(FileA) \ ExtractedAlone(ConfigFile) # {}
  /\ ExtractedAlone(ConfigFile) \ ExtractedAlone(FileA) # {}
  /\ usedPackages = ExtractedAlone(FileA) \cup ExtractedAlone(ConfigFile)
  /\ result.unusedDependencies # <<>>


(***************************************************************************)
(* C22  Entry condition of the verification.  The test run is invoked in   *)
(* a fix invocation exactly when requireTests is set and filesModified is  *)
(* not empty once the imports and the dependencies have been dealt with;   *)
(* it is invoked at most once; and when it is not invoked the result stays *)
(* successful as far as verification goes: no failed-tests error, no       *)
(* rollback.                                                               *)
(***************************************************************************)
TestsInvoked == Calls("runTests") # {}

C22_VerifyEntryCondition ==
  /\ Cardinality(Calls("runTests")) <= 1
  /\ TestsInvoked => Returned
  /\ Returned =>
       (TestsInvoked <=>
          (options.requireTests /\ Len(fixResult.filesModified) > 0))
  /\ ~TestsInvoked =>
       /\ fixResult.success
       /\ ~TestsFailed
       /\ TestsFailedError \notin Range(fixResult.errors)
       /\ Calls("rollback") = {}

\* verification was asked for, findings were handed in, a pass failed and
\* left an error, yet no file was modified: the tests are not run and the
\* result stays successful
C22_Witness ==
  /\ Returned
  /\ options.requireTests
  /\ result.unusedImports # <<>>
  /\ fixResult.filesModified = <<>>
  /\ fixResult.errors # <<>>
  /\ ~TestsInvoked
  /\ fixResult.success


(***************************************************************************)
(* C23  Rollback scope.  A failing test run triggers the rollback of       *)
(* exactly the files this run recorded in filesModified: rollback is       *)
(* called once, with that list, which names the files this run wrote and   *)
(* no other; those files are restored, and a file this run did not write   *)
(* is left as it is.                                                       *)
(* The code contradicts it: the call is made with the right list, but      *)
(* rollback restores nothing.                                              *)
(***************************************************************************)
\* rollback is called once, with the list of the files this run wrote
RollbackHandedModified ==
  /\ Cardinality(Calls("rollback")) = 1
  /\ \A k \in Calls("rollback") :
       /\ log[k].path = fixResult.filesModified
       /\ Range(log[k].path) = Written

\* the files this run did not write hold what they held
OthersUntouched ==
  \A path \in (DOMAIN fs \cup {packageJsonPath}) \ Written :
    ContentNow(path) = ContentBefore(path)

RollbackScopeKept ==
  (Returned /\ TestsFailed) => (RollbackHandedModified /\ OthersUntouched)

ImportSingleNamedLine(name, src) ==
  kwImport \o <<" ", "{", " ">> \o name \o <<" ", "}", " ">>
    \o kwFrom \o <<" ", Q>> \o src \o <<Q>>

\* the finding names a line that binds its name, and only it, from its source
SingleBinding(lines, imp) ==
  /\ imp.line \in 1..Len(lines)
  /\ lines[imp.line] \in {ImportDefaultLine(imp.importName, imp.source),
                          ImportSingleNamedLine(imp.importName, imp.source),
                          ImportNamespaceLine(imp.importName, imp.source)}

\* the entry of byFile is one C25 speaks of, and its file was read and written
C25_Case(entry) ==
  /\ <<"read", entry.filePath>> \notin io
  /\ <<"write", entry.filePath>> \notin io
  /\ DistinctLines(entry.imports)
  /\ \A k \in 1..Len(entry.imports) :
       SingleBinding(Split(fs0[entry.filePath]), entry.imports[k])

C25_SingleBindingRemoval ==
  pc = "DependenciesPass" =>
    \A k \in 1..Len(Grouped) :
      C25_Case(Grouped[k]) =>
        Split(fs[Grouped[k].filePath]) =
          KeepFrom(Split(fs0[Grouped[k].filePath]),
                   {imp.line : imp \in Range(Grouped[k].imports)}, 1)


(***************************************************************************)
(* C26  Kind-specific manifest deletion.  Once the DependenciesPass is     *)
(* over, an entry missing from dependencies is named by an eligible        *)
(* finding of kind dependency, one missing from devDependencies by an      *)
(* eligible finding of kind devDependency; a name is in                    *)
(* dependenciesRemoved only if the map of its finding's kind held it, so a *)
(* finding whose name that map lacks deletes nothing; every entry that is  *)
(* left keeps its version, and peerDependencies and the other keys of the  *)
(* manifest are unchanged.                                                 *)
(***************************************************************************)
\* the names of the eligible findings of this kind
NamedAs(type) ==
  {f.name : f \in {g \in Range(result.unusedDependencies) :
                     Eligible(g, options) /\ g.type = type}}

\* the map lost only names of `named`, and kept the versions of the rest
LostOnly(before, after, named) ==
  /\ DOMAIN after \subseteq DOMAIN before
  /\ DOMAIN before \ DOMAIN after \subseteq named
  /\ \A n \in DOMAIN after : after[n] = before[n]

C26_KindSpecificDeletion ==
  DependenciesDone =>
    /\ LostOnly(manifest0.dependencies, manifest.dependencies,
                NamedAs("dependency"))
    /\ LostOnly(manifest0.devDependencies, manifest.devDependencies,
                NamedAs("devDependency"))
    /\ \A n \in Range(fixResult.dependenciesRemoved) :
         \/ n \in NamedAs("dependency") \cap DOMAIN manifest0.dependencies
         \/ n \in NamedAs("devDependency") \cap DOMAIN manifest0.devDependencies
    /\ packageJsonPath \in Written =>
         /\ \A n \in NamedAs("dependency") :
              ~Truthy(manifest.dependencies, n)
         /\ \A n \in NamedAs("devDependency") :
              ~Truthy(manifest.devDependencies, n)
    /\ manifest.peerDependencies = manifest0.peerDependencies
    /\ manifest.name = manifest0.name
    /\ manifest.sections = manifest0.sections
    /\ manifest.valid = manifest0.valid

\* lodash went from dependencies only, although devDependencies and
\* peerDependencies hold it too; mocha, reported as a dependency and
\* declared as a devDependency, stayed
C26_Witness ==
  /\ DependenciesDone
  /\ packageJsonPath \in Written
  /\ NamedAs("dependency") = {"lodash", "mocha"}
  /\ NamedAs("devDependency") = {}
  /\ "lodash" \notin DOMAIN manifest.dependencies
  /\ manifest.devDependencies = manifest0.devDependencies
  /\ "mocha" \in DOMAIN manifest.devDependencies
  /\ "lodash" \in DOMAIN manifest.peerDependencies
  /\ fixResult.dependenciesRemoved = <<"lodash">>


(***************************************************************************)
(* C28  Success flag versus errors.  fix returns success = false only when *)
(* the test run failed; a failure on a source file and a failure to read,  *)
(* parse or write the manifest each leave a message in errors and leave    *)
(* success = true; so success = false implies that errors is not empty,    *)
(* and not the other way round.                                            *)
(***************************************************************************)
\* the manifest could not be read or parsed, or its write failed
ManifestFailed ==
  \/ <<"read", packageJsonPath>> \in io
  \/ ~manifest0.valid
  \/ \E k \in ManifestWrites : ~log[k].ok

C28_SuccessVersusErrors ==
  /\ ~fixResult.success => (Returned /\ TestsFailed /\ fixResult.errors # <<>>)
  /\ Returned => (fixResult.success <=> ~TestsFailed)
  /\ ImportsDone =>
       \A k \in 1..Len(Grouped) :
         FailedOn(Grouped[k].filePath) =>
           ImportError(Grouped[k].filePath) \in Range(fixResult.errors)
  /\ (DependenciesDone /\ ManifestFailed) =>
       DependencyError \in Range(fixResult.errors)

\* a source file and the manifest failed, another file was fixed, the tests
\* ran and passed: two errors, success = true
C28_Witness ==
  /\ Returned
  /\ fixResult.success
  /\ TestsInvoked
  /\ \E k \in 1..Len(Grouped) : FailedOn(Grouped[k].filePath)
  /\ ManifestFailed
  /\ Len(fixResult.errors) = 2

(***************************************************************************)
(* C29  A finding that does not match is a no-op.  An eligible finding     *)
(* whose line number is outside the file, or whose line holds not both     *)
(* its name and its source, changes no line and counts no removal: the     *)
(* edits of a file are those of its matching findings, and a file whose    *)
(* findings all fail to match is not written.  So importsRemoved never     *)
(* exceeds the number of eligible findings, and filesModified is a         *)
(* duplicate-free list of files named by eligible findings, plus at most   *)
(* the manifest path.                                                      *)
(***************************************************************************)
\* the finding names no line of `lines` that holds its name and its source
NonMatching(lines, imp) ==
  \/ imp.line \notin 1..Len(lines)
  \/ ~(Includes(lines[imp.line], imp.importName)
         /\ Includes(lines[imp.line], imp.source))

RECURSIVE MatchingOnly(_, _)
MatchingOnly(lines, imports) ==
  IF imports = <<>> THEN <<>>
  ELSE (IF NonMatching(lines, Head(imports)) THEN <<>> ELSE <<Head(imports)>>)
         \o MatchingOnly(lines, Tail(imports))

RECURSIVE EligibleCount(_)
EligibleCount(entries) ==
  IF entries = <<>> THEN 0
  ELSE Len(Head(entries).imports) + EligibleCount(Tail(entries))

NoDuplicates(q) == \A i, j \in 1..Len(q) : i # j => q[i] # q[j]

\* the turn of the ImportsPass on a file that was read: its edits are those
\* of the matching findings, which are all it counts, and with none of them
\* nothing is written
MatchingDecide(filePath, lines, imports, matching) ==
  /\ EditLines(lines, imports) = EditLines(lines, matching)
  /\ fixResult'.importsRemoved - fixResult.importsRemoved <= Len(matching)
  /\ matching = <<>> =>
       /\ fs' = fs
       /\ fixResult' = fixResult
       /\ log' = Append(log, Event("read", filePath, TRUE))

NonMatchingSkipped ==
  (pc = "ImportsPass" /\ byFile # <<>>
     /\ <<"read", Head(byFile).filePath>> \notin io)
  => MatchingDecide(Head(byFile).filePath,
                    Split(fs[Head(byFile).filePath]),
                    Head(byFile).imports,
                    MatchingOnly(Split(fs[Head(byFile).filePath]),
                                 Head(byFile).imports))

CountedAndListed ==
  /\ fixResult.importsRemoved <= EligibleCount(Grouped)
  /\ NoDuplicates(fixResult.filesModified)
  /\ Range(fixResult.filesModified)
       \subseteq {Grouped[k].filePath : k \in 1..Len(Grouped)}
                    \cup {packageJsonPath}

FoundOfKind(type) ==
  {f \in Range(result.unusedDependencies) : f.type = type}

CleanedSafely ==
  /\ Returned
  /\ options.safeMode
  /\ result.unusedDependencies = unusedDependencies

ManifestWriteFails == <<"write", packageJsonPath>> \in io

====
